---- MODULE Spec2Model ----
(***************************************************************************)
(* A model of math3d's Transform hierarchy (Transform.js) together with    *)
(* the Vector3 and Quaternion arithmetic it calls.                         *)
(*                                                                         *)
(* Number representation.  Vector3 components are integers.  Quaternion    *)
(* components are kept in half units: the field x of a model quaternion    *)
(* holds 2*x of the JavaScript object.  The unit quaternions with          *)
(* components in {0, +-1/2, +-1} (the 24 Hurwitz units) are closed under   *)
(* the Hamilton product, have magnitude exactly 1, and rotate integer      *)
(* vectors onto integer vectors, so every operation below is exact and     *)
(* the floating point rounding of the program plays no part.               *)
(***************************************************************************)
EXTENDS Integers, Sequences, FiniteSets, TLC

(* Bounds of the model *)
NumTransforms == 3
MaxSteps == 4
StackLimit == 6

Transforms == 1..NumTransforms

(* `undefined` as the value of the parent property: there is no parent *)
undefined == 0

(***************************************************************************)
(* Vector3.js                                                              *)
(***************************************************************************)
Vector3(x, y, z) == [x |-> x, y |-> y, z |-> z]

Vector3_zero == Vector3(0, 0, 0)

Vector3_add(a, b) == Vector3(a.x + b.x, a.y + b.y, a.z + b.z)

Vector3_sub(a, b) == Vector3(a.x - b.x, a.y - b.y, a.z - b.z)

(***************************************************************************)
(* Quaternion.js                                                           *)
(***************************************************************************)
(* Math.sqrt on the perfect squares the model meets *)
Sqrt(n) == CHOOSE r \in 0..n : r * r = n

(* The value of a component that was read from an object that does not    *)
(* have it (JavaScript undefined); only a zero magnitude produces it.     *)
NaN == -99

(* x, y, z, w in half units; the sum of squares is 4 * magnitude^2 *)
_normalizedCoordinates(x, y, z, w) ==
    LET ss == x * x + y * y + z * z + w * w
    IN  IF ss = 0
        THEN [x |-> NaN, y |-> NaN, z |-> NaN, w |-> NaN]
        ELSE IF ss = 4
        THEN [x |-> x, y |-> y, z |-> z, w |-> w]
        ELSE LET m == Sqrt(ss)
             IN  [x |-> (2 * x) \div m, y |-> (2 * y) \div m,
                  z |-> (2 * z) \div m, w |-> (2 * w) \div m]

Quaternion(x, y, z, w) == _normalizedCoordinates(x, y, z, w)

Quaternion_identity == Quaternion(0, 0, 0, 2)

Quaternion_conjugate(q) == Quaternion(-q.x, -q.y, -q.z, q.w)

Quaternion_inverse(q) == Quaternion_conjugate(q)

(* each product of two components is in quarter units, the sum is halved  *)
(* back to half units before the constructor normalizes it                *)
Quaternion_mul(a, b) ==
    Quaternion(
        ( a.x * b.w + a.y * b.z - a.z * b.y + a.w * b.x) \div 2,
        (-a.x * b.z + a.y * b.w + a.z * b.x + a.w * b.y) \div 2,
        ( a.x * b.y - a.y * b.x + a.z * b.w + a.w * b.z) \div 2,
        (-a.x * b.x - a.y * b.y - a.z * b.z + a.w * b.w) \div 2)

(* num4..num12 are in half units: num4 = x * (x * 2) is q.x * q.x here *)
Quaternion_mulVector3(q, v) ==
    LET num4 == q.x * q.x
        num5 == q.y * q.y
        num6 == q.z * q.z
        num7 == q.x * q.y
        num8 == q.x * q.z
        num9 == q.y * q.z
        num10 == q.w * q.x
        num11 == q.w * q.y
        num12 == q.w * q.z
    IN  Vector3(
          ((2 - (num5 + num6)) * v.x + (num7 - num12) * v.y + (num8 + num11) * v.z) \div 2,
          ((num7 + num12) * v.x + (2 - (num4 + num6)) * v.y + (num9 - num10) * v.z) \div 2,
          ((num8 - num11) * v.x + (num9 + num10) * v.y + (2 - (num4 + num5)) * v.z) \div 2)

(***************************************************************************)
(* Matrix.js and Matrix4x4.js.  A matrix is its values array, row-major:   *)
(* values[4 * i + j] of the program is m[4 * i + j + 1] here.  The entries *)
(* are whole units.                                                        *)
(***************************************************************************)
Vector3_one == Vector3(1, 1, 1)

(* vector3.homogeneous: the values of the Vector4 (x, y, z, 1) *)
Vector3_homogeneous(v) == <<v.x, v.y, v.z, 1>>

Matrix4x4_identity == <<1, 0, 0, 0,  0, 1, 0, 0,  0, 0, 1, 0,  0, 0, 0, 1>>

Matrix4x4_ScaleMatrix(scale) ==
    <<scale.x, 0, 0, 0,
      0, scale.y, 0, 0,
      0, 0, scale.z, 0,
      0, 0, 0, 1>>

Matrix4x4_TranslationMatrix(translation) ==
    <<1, 0, 0, translation.x,
      0, 1, 0, translation.y,
      0, 0, 1, translation.z,
      0, 0, 0, 1>>

(* num4..num12 are in half units, as in Quaternion_mulVector3; an entry is *)
(* halved to whole units                                                   *)
Matrix4x4_RotationMatrix(rotation) ==
    LET num4 == rotation.x * rotation.x
        num5 == rotation.y * rotation.y
        num6 == rotation.z * rotation.z
        num7 == rotation.x * rotation.y
        num8 == rotation.x * rotation.z
        num9 == rotation.y * rotation.z
        num10 == rotation.w * rotation.x
        num11 == rotation.w * rotation.y
        num12 == rotation.w * rotation.z
    IN  <<(2 - (num5 + num6)) \div 2, (num7 - num12) \div 2, (num8 + num11) \div 2, 0,
          (num7 + num12) \div 2, (2 - (num4 + num6)) \div 2, (num9 - num10) \div 2, 0,
          (num8 - num11) \div 2, (num9 + num10) \div 2, (2 - (num4 + num5)) \div 2, 0,
          0, 0, 0, 1>>

(* Matrix.prototype.mul for two 4x4 matrices: row i of a times column j of b *)
Matrix_mul(a, b) ==
    [n \in 1..16 |->
        LET i == (n - 1) \div 4
            j == (n - 1) % 4
        IN  a[4 * i + 1] * b[j + 1] + a[4 * i + 2] * b[j + 5]
              + a[4 * i + 3] * b[j + 9] + a[4 * i + 4] * b[j + 13]]

(* Matrix.prototype.mulVector for a 4x4 matrix and the values of a Vector4 *)
Matrix_mulVector(m, values) ==
    [i \in 1..4 |->
        m[4 * i - 3] * values[1] + m[4 * i - 2] * values[2]
          + m[4 * i - 1] * values[3] + m[4 * i] * values[4]]

Matrix4x4_mulVector3(m, vector3) ==
    LET vector == Matrix_mulVector(m, Vector3_homogeneous(vector3))
    IN  Vector3(vector[1], vector[2], vector[3])

(* Mutant: the translation is applied before the rotation *)
Matrix4x4_TRS_translateFirst(translation, rotation, scale) ==
    LET t == Matrix4x4_TranslationMatrix(translation)
        r == Matrix4x4_RotationMatrix(rotation)
        s == Matrix4x4_ScaleMatrix(scale)
    IN  Matrix_mul(r, Matrix_mul(t, s))

Matrix4x4_TRS(translation, rotation, scale) ==
    LET t == Matrix4x4_TranslationMatrix(translation)
        r == Matrix4x4_RotationMatrix(rotation)
        s == Matrix4x4_ScaleMatrix(scale)
    IN  Matrix_mul(t, Matrix_mul(r, s))

Matrix4x4_LocalToWorldMatrix(position_, rotation_, scale) ==
    Matrix4x4_TRS(position_, rotation_, scale)

(* Mutant: the last product takes m34 for m33 *)
Matrix4x4_determinant_wrongElement(m) ==
      m[4]*m[7]*m[10]*m[13] - m[3]*m[8]*m[10]*m[13]
    - m[4]*m[6]*m[11]*m[13] + m[2]*m[8]*m[11]*m[13]
    + m[3]*m[6]*m[12]*m[13] - m[2]*m[7]*m[12]*m[13]
    - m[4]*m[7]*m[9]*m[14] + m[3]*m[8]*m[9]*m[14]
    + m[4]*m[5]*m[11]*m[14] - m[1]*m[8]*m[11]*m[14]
    - m[3]*m[5]*m[12]*m[14] + m[1]*m[7]*m[12]*m[14]
    + m[4]*m[6]*m[9]*m[15] - m[2]*m[8]*m[9]*m[15]
    - m[4]*m[5]*m[10]*m[15] + m[1]*m[8]*m[10]*m[15]
    + m[2]*m[5]*m[12]*m[15] - m[1]*m[6]*m[12]*m[15]
    - m[3]*m[6]*m[9]*m[16] + m[2]*m[7]*m[9]*m[16]
    + m[3]*m[5]*m[10]*m[16] - m[1]*m[7]*m[10]*m[16]
    - m[2]*m[5]*m[11]*m[16] + m[1]*m[6]*m[12]*m[16]

(* m.determinant(): m11 is m[1], m12 is m[2], ..., m44 is m[16] *)
Matrix4x4_determinant(m) ==
      m[4]*m[7]*m[10]*m[13] - m[3]*m[8]*m[10]*m[13]
    - m[4]*m[6]*m[11]*m[13] + m[2]*m[8]*m[11]*m[13]
    + m[3]*m[6]*m[12]*m[13] - m[2]*m[7]*m[12]*m[13]
    - m[4]*m[7]*m[9]*m[14] + m[3]*m[8]*m[9]*m[14]
    + m[4]*m[5]*m[11]*m[14] - m[1]*m[8]*m[11]*m[14]
    - m[3]*m[5]*m[12]*m[14] + m[1]*m[7]*m[12]*m[14]
    + m[4]*m[6]*m[9]*m[15] - m[2]*m[8]*m[9]*m[15]
    - m[4]*m[5]*m[10]*m[15] + m[1]*m[8]*m[10]*m[15]
    + m[2]*m[5]*m[12]*m[15] - m[1]*m[6]*m[12]*m[15]
    - m[3]*m[6]*m[9]*m[16] + m[2]*m[7]*m[9]*m[16]
    + m[3]*m[5]*m[10]*m[16] - m[1]*m[7]*m[10]*m[16]
    - m[2]*m[5]*m[11]*m[16] + m[1]*m[6]*m[11]*m[16]

(* The sixteen cofactor sums inv[0..15] of inverse() and its det, before   *)
(* the division                                                            *)
Matrix4x4_cofactors(m) ==
    LET
        inv0 == m[6]*m[11]*m[16] - m[6]*m[12]*m[15] - m[10]*m[7]*m[16]
               + m[10]*m[8]*m[15] + m[14]*m[7]*m[12] - m[14]*m[8]*m[11]
        inv1 == -m[2]*m[11]*m[16] + m[2]*m[12]*m[15] + m[10]*m[3]*m[16]
               - m[10]*m[4]*m[15] - m[14]*m[3]*m[12] + m[14]*m[4]*m[11]
        inv2 == m[2]*m[7]*m[16] - m[2]*m[8]*m[15] - m[6]*m[3]*m[16]
               + m[6]*m[4]*m[15] + m[14]*m[3]*m[8] - m[14]*m[4]*m[7]
        inv3 == -m[2]*m[7]*m[12] + m[2]*m[8]*m[11] + m[6]*m[3]*m[12]
               - m[6]*m[4]*m[11] - m[10]*m[3]*m[8] + m[10]*m[4]*m[7]
        inv4 == -m[5]*m[11]*m[16] + m[5]*m[12]*m[15] + m[9]*m[7]*m[16]
               - m[9]*m[8]*m[15] - m[13]*m[7]*m[12] + m[13]*m[8]*m[11]
        inv5 == m[1]*m[11]*m[16] - m[1]*m[12]*m[15] - m[9]*m[3]*m[16]
               + m[9]*m[4]*m[15] + m[13]*m[3]*m[12] - m[13]*m[4]*m[11]
        inv6 == -m[1]*m[7]*m[16] + m[1]*m[8]*m[15] + m[5]*m[3]*m[16]
               - m[5]*m[4]*m[15] - m[13]*m[3]*m[8] + m[13]*m[4]*m[7]
        inv7 == m[1]*m[7]*m[12] - m[1]*m[8]*m[11] - m[5]*m[3]*m[12]
               + m[5]*m[4]*m[11] + m[9]*m[3]*m[8] - m[9]*m[4]*m[7]
        inv8 == m[5]*m[10]*m[16] - m[5]*m[12]*m[14] - m[9]*m[6]*m[16]
               + m[9]*m[8]*m[14] + m[13]*m[6]*m[12] - m[13]*m[8]*m[10]
        inv9 == -m[1]*m[10]*m[16] + m[1]*m[12]*m[14] + m[9]*m[2]*m[16]
               - m[9]*m[4]*m[14] - m[13]*m[2]*m[12] + m[13]*m[4]*m[10]
        inv10 == m[1]*m[6]*m[16] - m[1]*m[8]*m[14] - m[5]*m[2]*m[16]
                + m[5]*m[4]*m[14] + m[13]*m[2]*m[8] - m[13]*m[4]*m[6]
        inv11 == -m[1]*m[6]*m[12] + m[1]*m[8]*m[10] + m[5]*m[2]*m[12]
                - m[5]*m[4]*m[10] - m[9]*m[2]*m[8] + m[9]*m[4]*m[6]
        inv12 == -m[5]*m[10]*m[15] + m[5]*m[11]*m[14] + m[9]*m[6]*m[15]
                - m[9]*m[7]*m[14] - m[13]*m[6]*m[11] + m[13]*m[7]*m[10]
        inv13 == m[1]*m[10]*m[15] - m[1]*m[11]*m[14] - m[9]*m[2]*m[15]
                + m[9]*m[3]*m[14] + m[13]*m[2]*m[11] - m[13]*m[3]*m[10]
        inv14 == -m[1]*m[6]*m[15] + m[1]*m[7]*m[14] + m[5]*m[2]*m[15]
                - m[5]*m[3]*m[14] - m[13]*m[2]*m[7] + m[13]*m[3]*m[6]
        inv15 == m[1]*m[6]*m[11] - m[1]*m[7]*m[10] - m[5]*m[2]*m[11]
                + m[5]*m[3]*m[10] + m[9]*m[2]*m[7] - m[9]*m[3]*m[6]
        det == m[1] * inv0 + m[2] * inv4 + m[3] * inv8 + m[4] * inv12
        inv == <<inv0, inv1, inv2, inv3, inv4, inv5, inv6, inv7,
                 inv8, inv9, inv10, inv11, inv12, inv13, inv14, inv15>>
    IN  [inv |-> inv, det |-> det]

(* m.inverse() for the matrices of the transforms, whose det is 1 or -1:   *)
(* there inv[i] * (1.0 / det) is inv[i] \div det.  The result is undefined *)
(* when det is 0.                                                          *)
Matrix4x4_inverse(m) ==
    LET c == Matrix4x4_cofactors(m)
    IN  IF c.det = 0
        THEN undefined
        ELSE [i \in 1..16 |-> c.inv[i] \div c.det]

Matrix4x4_WorldToLocalMatrix(position_, rotation_, scale) ==
    Matrix4x4_inverse(Matrix4x4_LocalToWorldMatrix(position_, rotation_, scale))

(***************************************************************************)
(* JavaScript numbers for the calls of Quaternion.js that leave the        *)
(* quaternions with components in {0, +-1/2, +-1}: the Euler angles, the   *)
(* quaternion of zero magnitude.  A number is (a + b * sqrt(2)) / d with   *)
(* integers a, b and d > 0 in lowest terms, which is exact for the sines   *)
(* and cosines of the multiples of 45 degrees and closed under + - * /.    *)
(* neg is the sign of a zero (-0).  NaN, Infinity and undefined are values *)
(* of their own: arithmetic on NaN or undefined gives NaN.  The rounding   *)
(* of the program's doubles plays no part.                                 *)
(***************************************************************************)
RECURSIVE GCD(_, _)
GCD(m, n) == IF n = 0 THEN m ELSE GCD(n, m % n)

Abs(n) == IF n < 0 THEN -n ELSE n

Num(a, b, d) ==
    LET g == GCD(GCD(Abs(a), Abs(b)), d)
    IN  [k |-> "number", a |-> a \div g, b |-> b \div g, d |-> d \div g, neg |-> FALSE]

Whole(n) == Num(n, 0, 1)

Number_NaN == [k |-> "NaN", a |-> 0, b |-> 0, d |-> 1, neg |-> FALSE]

Number_Infinity == [k |-> "Infinity", a |-> 0, b |-> 0, d |-> 1, neg |-> FALSE]

undefinedValue == [k |-> "undefined", a |-> 0, b |-> 0, d |-> 1, neg |-> FALSE]

IsFinite(x) == x.k = "number"

IsZero(x) == x.k = "number" /\ x.a = 0 /\ x.b = 0

(* -1, 0 or 1: the sign of a + b * sqrt(2) *)
SignOf(x) ==
    IF x.a >= 0 /\ x.b >= 0 THEN (IF x.a = 0 /\ x.b = 0 THEN 0 ELSE 1)
    ELSE IF x.a <= 0 /\ x.b <= 0 THEN -1
    ELSE IF x.a > 0 THEN (IF x.a * x.a > 2 * x.b * x.b THEN 1 ELSE -1)
    ELSE (IF 2 * x.b * x.b > x.a * x.a THEN 1 ELSE -1)

(* the sign bit *)
IsNegative(x) == IF IsZero(x) THEN x.neg ELSE SignOf(x) < 0

(* x + y *)
Plus(x, y) ==
    IF ~IsFinite(x) \/ ~IsFinite(y)
    THEN Number_NaN
    ELSE LET r == Num(x.a * y.d + y.a * x.d, x.b * y.d + y.b * x.d, x.d * y.d)
         IN  IF IsZero(r)
             THEN [r EXCEPT !.neg = IsZero(x) /\ IsZero(y) /\ x.neg /\ y.neg]
             ELSE r

(* -x *)
Negate(x) ==
    IF ~IsFinite(x) THEN Number_NaN
    ELSE IF IsZero(x) THEN [x EXCEPT !.neg = ~x.neg]
    ELSE Num(-x.a, -x.b, x.d)

(* x - y *)
Minus(x, y) == Plus(x, Negate(y))

(* x * y *)
Times(x, y) ==
    IF ~IsFinite(x) \/ ~IsFinite(y)
    THEN Number_NaN
    ELSE LET r == Num(x.a * y.a + 2 * x.b * y.b, x.a * y.b + x.b * y.a, x.d * y.d)
         IN  IF IsZero(r)
             THEN [r EXCEPT !.neg = (IsNegative(x) # IsNegative(y))]
             ELSE r

(* x / y: the numerator is multiplied by the conjugate y.a - y.b * sqrt(2) *)
Over(x, y) ==
    IF ~IsFinite(x) \/ ~IsFinite(y)
    THEN Number_NaN
    ELSE IF IsZero(y)
    THEN (IF IsZero(x) THEN Number_NaN
          ELSE [Number_Infinity EXCEPT !.neg = (IsNegative(x) # IsNegative(y))])
    ELSE LET n == y.a * y.a - 2 * y.b * y.b
             s == IF n < 0 THEN -1 ELSE 1
             r == Num(s * (x.a * y.a - 2 * x.b * y.b) * y.d,
                      s * (x.b * y.a - x.a * y.b) * y.d,
                      x.d * Abs(n))
         IN  IF IsZero(r)
             THEN [r EXCEPT !.neg = (IsNegative(x) # IsNegative(y))]
             ELSE r

(* x < y; false when either is NaN or undefined *)
Less(x, y) == IsFinite(x) /\ IsFinite(y) /\ SignOf(Minus(x, y)) < 0

(* !x *)
Not(x) == "k" \in DOMAIN x /\ (x.k \in {"NaN", "undefined"} \/ IsZero(x))

Math_abs(x) == IF IsFinite(x) /\ IsNegative(x) THEN Negate(x) ELSE x

(* Math.sqrt of the sums of squares met: 0, 1/4, 1/2, 1, 2, 4 *)
Math_sqrt(x) ==
    IF ~IsFinite(x) THEN Number_NaN
    ELSE IF IsZero(x) THEN x
    ELSE IF IsNegative(x) THEN Number_NaN
    ELSE CHOOSE r \in {Num(1, 0, 2), Num(0, 1, 2), Whole(1), Num(0, 1, 1), Whole(2)} :
             Times(r, r) = x

(***************************************************************************)
(* Angles.  A value in radians is held in units of pi / 4, so Math.PI is   *)
(* 4, and a value in degrees in units of one degree: the two factors       *)
(* radToDeg and degToRad are 45 and 1 / 45.  The trigonometric functions   *)
(* are tables on the multiples of pi / 4; an argument off the tables is    *)
(* outside the model and stops the check.                                  *)
(***************************************************************************)
Math_PI == Whole(4)

radToDeg == Over(Whole(180), Math_PI)

degToRad == Over(Math_PI, Whole(180))

(* the place of a multiple of pi / 4 on the circle, 0..7 *)
Octant(rad) == IF rad.b = 0 /\ rad.d = 1 THEN rad.a % 8 ELSE -1

Math_cos(rad) ==
    IF ~IsFinite(rad) THEN Number_NaN
    ELSE [o \in 0..7 |->
            CASE o = 0 -> Whole(1)
              [] o \in {1, 7} -> Num(0, 1, 2)
              [] o \in {2, 6} -> Whole(0)
              [] o \in {3, 5} -> Num(0, -1, 2)
              [] o = 4 -> Whole(-1)][Octant(rad)]

Math_sin(rad) ==
    IF ~IsFinite(rad) THEN Number_NaN
    ELSE IF IsZero(rad) THEN rad
    ELSE [o \in 0..7 |->
            CASE o \in {0, 4} -> Whole(0)
              [] o \in {1, 3} -> Num(0, 1, 2)
              [] o = 2 -> Whole(1)
              [] o \in {5, 7} -> Num(0, -1, 2)
              [] o = 6 -> Whole(-1)][Octant(rad)]

Math_asin(v) ==
    IF ~IsFinite(v) THEN Number_NaN
    ELSE IF IsZero(v) THEN v
    ELSE IF Less(Whole(1), Math_abs(v)) THEN Number_NaN
    ELSE CASE v = Whole(1) -> Whole(2)
           [] v = Whole(-1) -> Whole(-2)
           [] v = Num(0, 1, 2) -> Whole(1)
           [] v = Num(0, -1, 2) -> Whole(-1)
           [] v = Num(1, 0, 2) -> Num(2, 0, 3)
           [] v = Num(-1, 0, 2) -> Num(-2, 0, 3)

(* Math.atan2(y, x), with the signs of the zeros *)
Math_atan2(y, x) ==
    IF ~IsFinite(y) \/ ~IsFinite(x) THEN Number_NaN
    ELSE IF IsZero(y)
    THEN (IF IsNegative(x)
          THEN (IF y.neg THEN Whole(-4) ELSE Whole(4))
          ELSE y)
    ELSE IF IsZero(x)
    THEN (IF IsNegative(y) THEN Whole(-2) ELSE Whole(2))
    ELSE CASE Math_abs(y) = Math_abs(x) ->
                IF IsNegative(x)
                THEN (IF IsNegative(y) THEN Whole(-3) ELSE Whole(3))
                ELSE (IF IsNegative(y) THEN Whole(-1) ELSE Whole(1))

(***************************************************************************)
(* util.js                                                                 *)
(***************************************************************************)
(* typeof o == "number" *)
isNumber(o) == "k" \in DOMAIN o /\ o.k \in {"number", "NaN", "Infinity"}

(* Math.abs(d1 - d2) < 1e-13.  Of the numbers the model meets, with small  *)
(* a, b and d, only 0 is below 1e-13.                                      *)
doublesEqual(d1, d2) ==
    LET diff == Math_abs(Minus(d1, d2))
    IN  IsFinite(diff) /\ IsZero(diff)

(***************************************************************************)
(* Vector3.js and Quaternion.js on JavaScript numbers.  These are the      *)
(* functions the Transform model uses in their integer form above, which   *)
(* they agree with on the unit quaternions with components in              *)
(* {0, +-1/2, +-1}; here a component is a number in whole units.           *)
(***************************************************************************)
_Vector3(x, y, z) ==
    [x |-> IF Not(x) THEN Whole(0) ELSE x,
     y |-> IF Not(y) THEN Whole(0) ELSE y,
     z |-> IF Not(z) THEN Whole(0) ELSE z]

(* Vector.prototype.equals for two Vector3: arraysEqual on the values *)
_Vector3_equals(a, b) ==
    doublesEqual(a.x, b.x) /\ doublesEqual(a.y, b.y) /\ doublesEqual(a.z, b.z)

Vector3_forward == _Vector3(Whole(0), Whole(0), Whole(1))

(* On a zero magnitude the function returns this, which is not a           *)
(* quaternion and has no x, y, z, w: the caller reads undefined.           *)
_normalizedCoordinatesOf(x, y, z, w) ==
    LET magnitude == Math_sqrt(Plus(Plus(Plus(Times(x, x), Times(y, y)), Times(z, z)),
                                    Times(w, w)))
    IN  IF IsZero(magnitude)
        THEN [x |-> undefinedValue, y |-> undefinedValue,
              z |-> undefinedValue, w |-> undefinedValue]
        ELSE [x |-> Over(x, magnitude), y |-> Over(y, magnitude),
              z |-> Over(z, magnitude), w |-> Over(w, magnitude)]

(* new Quaternion(x, y, z, w) *)
_Quaternion(x, y, z, w) ==
    _normalizedCoordinatesOf(
        IF Not(x) \/ ~isNumber(x) THEN Whole(0) ELSE x,
        IF Not(y) \/ ~isNumber(y) THEN Whole(0) ELSE y,
        IF Not(z) \/ ~isNumber(z) THEN Whole(0) ELSE z,
        IF w = undefinedValue \/ ~isNumber(w) THEN Whole(1) ELSE w)

(* Mutant: the half-angle products of the order y, then x, then z *)
_fromEuler_yxz(x, y, z) ==
    LET c1 == Math_cos(Over(y, Whole(2)))
        s1 == Math_sin(Over(y, Whole(2)))
        c2 == Math_cos(Over(x, Whole(2)))
        s2 == Math_sin(Over(x, Whole(2)))
        c3 == Math_cos(Over(z, Whole(2)))
        s3 == Math_sin(Over(z, Whole(2)))
    IN  _Quaternion(
          Minus(Times(Times(c1, s2), c3), Times(Times(s1, c2), s3)),
          Plus(Times(Times(s1, c2), c3), Times(Times(c1, s2), s3)),
          Plus(Times(Times(c1, c2), s3), Times(Times(s1, s2), c3)),
          Minus(Times(Times(c1, c2), c3), Times(Times(s1, s2), s3)))

_fromEuler(x, y, z) ==
    LET c1 == Math_cos(Over(y, Whole(2)))
        s1 == Math_sin(Over(y, Whole(2)))
        c2 == Math_cos(Over(x, Whole(2)))
        s2 == Math_sin(Over(x, Whole(2)))
        c3 == Math_cos(Over(z, Whole(2)))
        s3 == Math_sin(Over(z, Whole(2)))
    IN  _Quaternion(
          Plus(Times(Times(s1, c2), s3), Times(Times(c1, s2), c3)),
          Minus(Times(Times(s1, c2), c3), Times(Times(c1, s2), s3)),
          Minus(Times(Times(c1, c2), s3), Times(Times(s1, s2), c3)),
          Plus(Times(Times(c1, c2), c3), Times(Times(s1, s2), s3)))

(* Quaternion.Euler(x, y, z) for numbers x, y, z in degrees *)
_Quaternion_Euler(x, y, z) ==
    _fromEuler(Times(x, degToRad), Times(y, degToRad), Times(z, degToRad))

(* the two while loops of _normalizeRad *)
RECURSIVE WhileAbove360(_)
WhileAbove360(angle) ==
    IF Less(Whole(360), angle) THEN WhileAbove360(Minus(angle, Whole(360))) ELSE angle

RECURSIVE WhileBelow0(_)
WhileBelow0(angle) ==
    IF Less(angle, Whole(0)) THEN WhileBelow0(Plus(angle, Whole(360))) ELSE angle

_normalizeRad(rad) == WhileBelow0(WhileAbove360(Times(rad, radToDeg)))

(* q.eulerAngles *)
_getEulerAngles(q) ==
    LET poleSum == Minus(Times(q.x, q.w), Times(q.y, q.z))
        sqw == Times(q.w, q.w)
        sqx == Times(q.x, q.x)
        sqy == Times(q.y, q.y)
        two == Whole(2)
        _x == Math_asin(Minus(Times(Times(two, q.x), q.w), Times(Times(two, q.y), q.z)))
        _y == Math_atan2(Plus(Times(Times(two, q.x), q.z), Times(Times(two, q.y), q.w)),
                         Minus(Minus(Whole(1), Times(two, sqy)), Times(two, sqx)))
        _z == Minus(Math_PI,
                    Math_atan2(Plus(Times(Times(two, q.x), q.y), Times(Times(two, q.z), q.w)),
                               Minus(Minus(Whole(1), Times(two, sqy)), Times(two, sqw))))
    IN  IF doublesEqual(poleSum, Num(1, 0, 2))
        THEN [x |-> Whole(90), y |-> Whole(0), z |-> Whole(0)]
        ELSE IF doublesEqual(poleSum, Num(-1, 0, 2))
        THEN [x |-> Whole(-90), y |-> Whole(0), z |-> Whole(0)]
        ELSE [x |-> _normalizeRad(_x), y |-> _normalizeRad(_y), z |-> _normalizeRad(_z)]

(* Mutant: z keeps its sign *)
_Quaternion_conjugate_keepsZ(q) == _Quaternion(Negate(q.x), Negate(q.y), q.z, q.w)

_Quaternion_conjugate(q) == _Quaternion(Negate(q.x), Negate(q.y), Negate(q.z), q.w)

_Quaternion_inverse(q) == _Quaternion_conjugate(q)

_Quaternion_equals(q, quaternion) ==
    /\ doublesEqual(q.x, quaternion.x)
    /\ doublesEqual(q.y, quaternion.y)
    /\ doublesEqual(q.z, quaternion.z)
    /\ doublesEqual(q.w, quaternion.w)

(* Mutant: the product in the other order, quaternion * this *)
_Quaternion_mul_reversed(q, quaternion) ==
    _Quaternion(
      Plus(Minus(Plus(Times(quaternion.x, q.w), Times(quaternion.y, q.z)),
                 Times(quaternion.z, q.y)), Times(quaternion.w, q.x)),
      Plus(Plus(Plus(Times(Negate(quaternion.x), q.z), Times(quaternion.y, q.w)),
                Times(quaternion.z, q.x)), Times(quaternion.w, q.y)),
      Plus(Plus(Minus(Times(quaternion.x, q.y), Times(quaternion.y, q.x)),
                Times(quaternion.z, q.w)), Times(quaternion.w, q.z)),
      Plus(Minus(Minus(Times(Negate(quaternion.x), q.x), Times(quaternion.y, q.y)),
                 Times(quaternion.z, q.z)), Times(quaternion.w, q.w)))

_Quaternion_mul(q, quaternion) ==
    _Quaternion(
      Plus(Minus(Plus(Times(q.x, quaternion.w), Times(q.y, quaternion.z)),
                 Times(q.z, quaternion.y)), Times(q.w, quaternion.x)),
      Plus(Plus(Plus(Times(Negate(q.x), quaternion.z), Times(q.y, quaternion.w)),
                Times(q.z, quaternion.x)), Times(q.w, quaternion.y)),
      Plus(Plus(Minus(Times(q.x, quaternion.y), Times(q.y, quaternion.x)),
                Times(q.z, quaternion.w)), Times(q.w, quaternion.z)),
      Plus(Minus(Minus(Times(Negate(q.x), quaternion.x), Times(q.y, quaternion.y)),
                 Times(q.z, quaternion.z)), Times(q.w, quaternion.w)))

(* Mutant: the rotation matrix is transposed, which rotates the other way *)
_Quaternion_mulVector3_transposed(q, vector3) ==
    LET num == Times(q.x, Whole(2))
        num2 == Times(q.y, Whole(2))
        num3 == Times(q.z, Whole(2))
        num4 == Times(q.x, num)
        num5 == Times(q.y, num2)
        num6 == Times(q.z, num3)
        num7 == Times(q.x, num2)
        num8 == Times(q.x, num3)
        num9 == Times(q.y, num3)
        num10 == Times(q.w, num)
        num11 == Times(q.w, num2)
        num12 == Times(q.w, num3)
        one == Whole(1)
    IN  _Vector3(
          Plus(Plus(Times(Minus(one, Plus(num5, num6)), vector3.x),
                    Times(Plus(num7, num12), vector3.y)),
               Times(Minus(num8, num11), vector3.z)),
          Plus(Plus(Times(Minus(num7, num12), vector3.x),
                    Times(Minus(one, Plus(num4, num6)), vector3.y)),
               Times(Plus(num9, num10), vector3.z)),
          Plus(Plus(Times(Plus(num8, num11), vector3.x),
                    Times(Minus(num9, num10), vector3.y)),
               Times(Minus(one, Plus(num4, num5)), vector3.z)))

_Quaternion_mulVector3(q, vector3) ==
    LET num == Times(q.x, Whole(2))
        num2 == Times(q.y, Whole(2))
        num3 == Times(q.z, Whole(2))
        num4 == Times(q.x, num)
        num5 == Times(q.y, num2)
        num6 == Times(q.z, num3)
        num7 == Times(q.x, num2)
        num8 == Times(q.x, num3)
        num9 == Times(q.y, num3)
        num10 == Times(q.w, num)
        num11 == Times(q.w, num2)
        num12 == Times(q.w, num3)
        one == Whole(1)
    IN  _Vector3(
          Plus(Plus(Times(Minus(one, Plus(num5, num6)), vector3.x),
                    Times(Minus(num7, num12), vector3.y)),
               Times(Plus(num8, num11), vector3.z)),
          Plus(Plus(Times(Plus(num7, num12), vector3.x),
                    Times(Minus(one, Plus(num4, num6)), vector3.y)),
               Times(Minus(num9, num10), vector3.z)),
          Plus(Plus(Times(Minus(num8, num11), vector3.x),
                    Times(Plus(num9, num10), vector3.y)),
               Times(Minus(one, Plus(num4, num5)), vector3.z)))

_Quaternion_identity == _Quaternion(Whole(0), Whole(0), Whole(0), Whole(1))

_Quaternion_zero == _Quaternion(Whole(0), Whole(0), Whole(0), Whole(0))

(***************************************************************************)
(* Vector.js, Matrix.js and Matrix4x4.js on JavaScript numbers.  An array  *)
(* is a record with the sequence of its elements, a Vector or Matrix       *)
(* object is a record of its read-only properties, and a constructor that  *)
(* throws gives a record with the exception only.  The derived properties  *)
(* magnitude, rows and columns are left out.                               *)
(***************************************************************************)
(* val instanceof Vector3 and val instanceof Quaternion, by the properties *)
(* the object has                                                         *)
instanceof_Vector3(val) == DOMAIN val = {"x", "y", "z"}

instanceof_Quaternion(val) == DOMAIN val = {"x", "y", "z", "w"}

Array_(elements) == [array |-> elements]

Array_isArray(o) == "array" \in DOMAIN o

Number_isInteger(n) == n.k = "number" /\ n.b = 0 /\ n.d = 1

(* Array(n).fill(0) *)
Zeros(n) == [i \in 1..n |-> Whole(0)]

(* values.slice(0, end): a negative end counts from the end of the array *)
slice(values, end) ==
    LET last_ == IF end < 0 THEN Len(values) + end ELSE end
    IN  SubSeq(values, 1, IF last_ > Len(values) THEN Len(values) ELSE last_)

isNumberArray(arr) ==
    Array_isArray(arr) /\ \A i \in 1..Len(arr.array) : isNumber(arr.array[i])

arraysEqual(a, b) ==
    /\ Len(a) = Len(b)
    /\ \A i \in 1..Len(a) :
          IF isNumber(a[i]) /\ isNumber(b[i])
          THEN doublesEqual(a[i], b[i])
          ELSE a[i] = b[i]

(* The values after the padding or the truncation to n values *)
FitTo(_values, n) ==
    IF Less(Whole(Len(_values)), n)
    THEN _values \o Zeros(n.a - Len(_values))
    ELSE IF Less(n, Whole(Len(_values)))
    THEN slice(_values, n.a)
    ELSE _values

(* new Vector(dimension, data) *)
_Vector(dimension, data) ==
    IF Not(dimension) \/ ~Number_isInteger(dimension)
    THEN [thrown |-> "TypeError"]
    ELSE IF ~Array_isArray(data)
    THEN [thrown |-> "none", dimension |-> dimension, values |-> FitTo(<<>>, dimension)]
    ELSE IF ~isNumberArray(data)
    THEN [thrown |-> "TypeError"]
    ELSE [thrown |-> "none", dimension |-> dimension,
          values |-> FitTo(data.array, dimension)]

(* new Matrix(numRows, numColumns, data) *)
_Matrix(numRows, numColumns, data) ==
    IF ~Number_isInteger(numRows) \/ ~Number_isInteger(numColumns)
    THEN [thrown |-> "TypeError"]
    ELSE LET _numValues == Times(numRows, numColumns)
             size == [rows |-> numRows, columns |-> numColumns]
         IN  IF ~Array_isArray(data)
             THEN [thrown |-> "none", size |-> size, values |-> FitTo(<<>>, _numValues)]
             ELSE IF ~isNumberArray(data)
             THEN [thrown |-> "TypeError"]
             ELSE [thrown |-> "none", size |-> size,
                   values |-> FitTo(data.array, _numValues)]

(* new Matrix4x4(data) *)
_Matrix4x4(data) == _Matrix(Whole(4), Whole(4), data)

(* Matrix4x4.ScaleMatrix(scale) *)
_Matrix4x4_ScaleMatrix(scale) ==
    LET scale_ == IF isNumber(scale) THEN [x |-> scale, y |-> scale, z |-> scale] ELSE scale
        O == Whole(0)
    IN  IF ~isNumber(scale) /\ ~instanceof_Vector3(scale)
        THEN [thrown |-> "TypeError"]
        ELSE _Matrix4x4(Array_(
                 <<scale_.x, O, O, O,
                   O, scale_.y, O, O,
                   O, O, scale_.z, O,
                   O, O, O, Whole(1)>>))

(* Matrix4x4.TranslationMatrix(translation) *)
_Matrix4x4_TranslationMatrix(translation) ==
    LET O == Whole(0)
        I == Whole(1)
    IN  IF ~instanceof_Vector3(translation)
        THEN [thrown |-> "TypeError"]
        ELSE _Matrix4x4(Array_(
                 <<I, O, O, translation.x,
                   O, I, O, translation.y,
                   O, O, I, translation.z,
                   O, O, O, I>>))

(* Matrix4x4.RotationMatrix(rotation) *)
_Matrix4x4_RotationMatrix(rotation) ==
    IF ~instanceof_Quaternion(rotation)
    THEN [thrown |-> "TypeError"]
    ELSE LET num == Times(rotation.x, Whole(2))
             num2 == Times(rotation.y, Whole(2))
             num3 == Times(rotation.z, Whole(2))
             num4 == Times(rotation.x, num)
             num5 == Times(rotation.y, num2)
             num6 == Times(rotation.z, num3)
             num7 == Times(rotation.x, num2)
             num8 == Times(rotation.x, num3)
             num9 == Times(rotation.y, num3)
             num10 == Times(rotation.w, num)
             num11 == Times(rotation.w, num2)
             num12 == Times(rotation.w, num3)
             O == Whole(0)
             I == Whole(1)
         IN  _Matrix4x4(Array_(
                 <<Minus(I, Plus(num5, num6)), Minus(num7, num12), Plus(num8, num11), O,
                   Plus(num7, num12), Minus(I, Plus(num4, num6)), Minus(num9, num10), O,
                   Minus(num8, num11), Plus(num9, num10), Minus(I, Plus(num4, num5)), O,
                   O, O, O, I>>))

(* a.mul(b) for two Matrix4x4 *)
_Matrix4x4_mul(a, b) ==
    _Matrix4x4(Array_(
        [n \in 1..16 |->
            LET i == (n - 1) \div 4
                j == (n - 1) % 4
                Term(k) == Times(a.values[4 * i + k], b.values[j + 4 * k - 3])
            IN  Plus(Plus(Plus(Plus(Whole(0), Term(1)), Term(2)), Term(3)), Term(4))]))

(* Mutant: the scale is applied after the rotation *)
_Matrix4x4_TRS_scaleLast(translation, rotation, scale) ==
    LET t == _Matrix4x4_TranslationMatrix(translation)
        r == _Matrix4x4_RotationMatrix(rotation)
        s == _Matrix4x4_ScaleMatrix(scale)
    IN  IF t.thrown # "none" THEN t
        ELSE IF r.thrown # "none" THEN r
        ELSE IF s.thrown # "none" THEN s
        ELSE _Matrix4x4_mul(t, _Matrix4x4_mul(s, r))

(* Matrix4x4.TRS(translation, rotation, scale) *)
_Matrix4x4_TRS(translation, rotation, scale) ==
    LET t == _Matrix4x4_TranslationMatrix(translation)
        r == _Matrix4x4_RotationMatrix(rotation)
        s == _Matrix4x4_ScaleMatrix(scale)
    IN  IF t.thrown # "none" THEN t
        ELSE IF r.thrown # "none" THEN r
        ELSE IF s.thrown # "none" THEN s
        ELSE _Matrix4x4_mul(t, _Matrix4x4_mul(r, s))

(* Vector3.one, and vector3.homogeneous: the values of the Vector4         *)
(* (x, y, z, 1)                                                            *)
_Vector3_one == _Vector3(Whole(1), Whole(1), Whole(1))

(* Matrix4x4.LocalToWorldMatrix(position, rotation, scale); an argument    *)
(* that is left out is undefined.  Without a rotation the program assigns  *)
(* Quaternion.identity to the global fromRotation, and rotation stays      *)
(* undefined.                                                              *)
_Matrix4x4_LocalToWorldMatrix(position_, rotation_, scale) ==
    LET scale_ == IF Not(scale) THEN _Vector3_one ELSE scale
    IN  _Matrix4x4_TRS(position_, rotation_, scale_)

_Vector3_homogeneous(vector3) == <<vector3.x, vector3.y, vector3.z, Whole(1)>>

(* matrix.mulVector3(vector3) *)
_Matrix4x4_mulVector3(matrix, vector3) ==
    IF ~instanceof_Vector3(vector3)
    THEN [thrown |-> "TypeError"]
    ELSE LET h == _Vector3_homogeneous(vector3)
             Sum(i) == Plus(Plus(Plus(Plus(Whole(0),
                           Times(matrix.values[4 * i - 3], h[1])),
                           Times(matrix.values[4 * i - 2], h[2])),
                           Times(matrix.values[4 * i - 1], h[3])),
                           Times(matrix.values[4 * i], h[4]))
         IN  _Vector3(Sum(1), Sum(2), Sum(3))

(* The Matrix4x4 of sixteen whole numbers, and the whole numbers of a      *)
(* Matrix4x4                                                               *)
Matrix4x4_ofIntegers(m) == _Matrix4x4(Array_([i \in 1..16 |-> Whole(m[i])]))

Matrix4x4_integers(matrix) == [i \in 1..16 |-> matrix.values[i].a]

_sizesMatch(matrix1, matrix2) ==
    /\ doublesEqual(matrix1.size.rows, matrix2.size.rows)
    /\ doublesEqual(matrix1.size.columns, matrix2.size.columns)

(* matrix1.equals(matrix2) *)
_Matrix_equals(matrix1, matrix2) ==
    _sizesMatch(matrix1, matrix2) /\ arraysEqual(matrix1.values, matrix2.values)

_Matrix4x4_identity == Matrix4x4_ofIntegers(Matrix4x4_identity)

(* matrix.determinant() for a matrix of whole numbers *)
_Matrix4x4_determinant(matrix) == Whole(Matrix4x4_determinant(Matrix4x4_integers(matrix)))

(* Mutant: the inverse is not divided by the determinant *)
_Matrix4x4_inverse_notDivided(matrix) ==
    LET c == Matrix4x4_cofactors(Matrix4x4_integers(matrix))
    IN  IF c.det = 0
        THEN undefinedValue
        ELSE _Matrix4x4(Array_([i \in 1..16 |-> Whole(c.inv[i])]))

(* Mutant: a matrix without inverse gives the zero matrix *)
_Matrix4x4_inverse_zeroMatrix(matrix) ==
    LET c == Matrix4x4_cofactors(Matrix4x4_integers(matrix))
        det == Over(Whole(1), Whole(c.det))
    IN  IF c.det = 0
        THEN _Matrix4x4(Array_(<<>>))
        ELSE _Matrix4x4(Array_([i \in 1..16 |-> Times(Whole(c.inv[i]), det)]))

(* matrix.inverse() for a matrix of whole numbers: the cofactor sums times *)
(* 1.0 / det, or undefined when det is 0                                   *)
_Matrix4x4_inverse(matrix) ==
    LET c == Matrix4x4_cofactors(Matrix4x4_integers(matrix))
        det == Over(Whole(1), Whole(c.det))
    IN  IF c.det = 0
        THEN undefinedValue
        ELSE _Matrix4x4(Array_([i \in 1..16 |-> Times(Whole(c.inv[i]), det)]))

(***************************************************************************)
(* Transform.js.  A heap h holds the private fields of every Transform:    *)
(* _position, _rotation, _localPosition, _localRotation, _parent and       *)
(* _children, each a function of the transform, the property location     *)
(* that translate gives a transform, and the exception the running call    *)
(* has thrown ("none" while it runs normally).  A statement that follows a *)
(* throw is skipped.                                                       *)
(***************************************************************************)
VARIABLES position, rotation, localPosition, localRotation, parent, children,
          location, thrown, last, looped, steps, calc

vars == <<position, rotation, localPosition, localRotation, parent, children,
          location, thrown, last, looped, steps, calc>>

Heap == [position |-> position, rotation |-> rotation,
         localPosition |-> localPosition, localRotation |-> localRotation,
         parent |-> parent, children |-> children, location |-> location,
         thrown |-> "none"]

(* val instanceof Vector3, Quaternion, _Transform.  A value of another     *)
(* type (a number, a string, a plain object) is wrongTyped where a Vector3 *)
(* or a Quaternion is expected and NotATransform where a Transform is.     *)
wrongTyped == [typeof |-> "number"]

(* The value of a property the object does not have *)
noProperty == [typeof |-> "undefined"]

NotATransform == -1

instanceof_Transform(val) == val \in Transforms

(* Mutant: the parent's rotation is applied, not its inverse *)
_getLocalPositionFromWorldPosition_noInverse(h, t) ==
    IF h.parent[t] = undefined
    THEN h.position[t]
    ELSE Quaternion_mulVector3(h.rotation[h.parent[t]],
                               Vector3_sub(h.position[t], h.position[h.parent[t]]))

_getLocalPositionFromWorldPosition(h, t) ==
    IF h.parent[t] = undefined
    THEN h.position[t]
    ELSE Quaternion_mulVector3(Quaternion_inverse(h.rotation[h.parent[t]]),
                               Vector3_sub(h.position[t], h.position[h.parent[t]]))

_getWorldPositionFromLocalPosition(h, t) ==
    IF h.parent[t] = undefined
    THEN h.localPosition[t]
    ELSE Vector3_add(h.position[h.parent[t]],
                     Quaternion_mulVector3(h.rotation[h.parent[t]], h.localPosition[t]))

_getLocalRotationFromWorldRotation(h, t) ==
    IF h.parent[t] = undefined
    THEN h.rotation[t]
    ELSE Quaternion_mul(Quaternion_inverse(h.rotation[h.parent[t]]), h.rotation[t])

_getWorldRotationFromLocalRotation(h, t) ==
    IF h.parent[t] = undefined
    THEN h.localRotation[t]
    ELSE Quaternion_mul(h.rotation[h.parent[t]], h.localRotation[t])

(* The position and rotation setters and _adjustChildren call each other;  *)
(* d is the number of setter frames the call stack still has room for, and *)
(* a setter entered with none left throws RangeError (stack overflow).     *)
RECURSIVE set_position(_, _, _, _)
RECURSIVE set_rotation(_, _, _, _)
RECURSIVE _adjustChildren(_, _, _)

_adjustChildren(h, cs, d) ==
    IF cs = <<>> \/ h.thrown # "none"
    THEN h
    ELSE LET child == Head(cs)
             h1 == set_rotation(h, child, _getWorldRotationFromLocalRotation(h, child), d)
             h2 == set_position(h1, child, _getWorldPositionFromLocalPosition(h1, child), d)
         IN  _adjustChildren(h2, Tail(cs), d)

set_position(h, t, val, d) ==
    IF h.thrown # "none"
    THEN h
    ELSE IF d = 0
    THEN [h EXCEPT !.thrown = "RangeError"]
    ELSE IF ~instanceof_Vector3(val)
    THEN h
    ELSE LET h1 == [h EXCEPT !.position[t] = val]
             h2 == [h1 EXCEPT !.localPosition[t] = _getLocalPositionFromWorldPosition(h1, t)]
         IN  _adjustChildren(h2, h2.children[t], d - 1)

set_rotation(h, t, val, d) ==
    IF h.thrown # "none"
    THEN h
    ELSE IF d = 0
    THEN [h EXCEPT !.thrown = "RangeError"]
    ELSE IF ~instanceof_Quaternion(val)
    THEN h
    ELSE LET h1 == [h EXCEPT !.rotation[t] = val]
             h2 == [h1 EXCEPT !.localRotation[t] = _getLocalRotationFromWorldRotation(h1, t)]
         IN  _adjustChildren(h2, h2.children[t], d - 1)

(* Mutant: the world position is not recomputed *)
set_localPosition_noWorld(h, t, val) ==
    [h EXCEPT !.localPosition[t] = val]

set_localPosition(h, t, val) ==
    IF ~instanceof_Vector3(val)
    THEN h
    ELSE LET h1 == [h EXCEPT !.localPosition[t] = val]
         IN  [h1 EXCEPT !.position[t] = _getWorldPositionFromLocalPosition(h1, t)]

(* Mutant: the write cascades to the children, as a world write does *)
set_localRotation_cascades(h, t, val) ==
    LET h1 == [h EXCEPT !.localRotation[t] = val]
        h2 == [h1 EXCEPT !.rotation[t] = _getWorldRotationFromLocalRotation(h1, t)]
    IN  _adjustChildren(h2, h2.children[t], StackLimit)

set_localRotation(h, t, val) ==
    IF ~instanceof_Quaternion(val)
    THEN h
    ELSE LET h1 == [h EXCEPT !.localRotation[t] = val]
         IN  [h1 EXCEPT !.rotation[t] = _getWorldRotationFromLocalRotation(h1, t)]

(* Array.prototype.indexOf: the first index of c in cs, 0 for -1 *)
indexOf(cs, c) ==
    IF \E i \in 1..Len(cs) : cs[i] = c
    THEN CHOOSE i \in 1..Len(cs) : cs[i] = c /\ \A j \in 1..(i - 1) : cs[j] # c
    ELSE 0

(* Array.prototype.splice(index, 1) *)
splice(cs, index) ==
    [i \in 1..(Len(cs) - 1) |-> IF i < index THEN cs[i] ELSE cs[i + 1]]

RECURSIVE set_parent(_, _, _)
RECURSIVE addChild(_, _, _)
RECURSIVE removeChild(_, _, _)

(* t.parent = val *)
set_parent(h, t, val) ==
    IF h.thrown # "none"
    THEN h
    ELSE IF val # undefined /\ ~instanceof_Transform(val)
    THEN h
    ELSE IF instanceof_Transform(val)
    THEN LET h1 == [h EXCEPT !.parent[t] = val]
             h2 == [h1 EXCEPT !.localRotation[t] = _getLocalRotationFromWorldRotation(h1, t)]
             h3 == [h2 EXCEPT !.localPosition[t] = _getLocalPositionFromWorldPosition(h2, t)]
         IN  addChild(h3, val, t)
    ELSE LET temp == h.parent[t]
             h1 == [h EXCEPT !.parent[t] = undefined]
             h2 == [h1 EXCEPT !.localRotation[t] = h1.rotation[t]]
             h3 == [h2 EXCEPT !.localPosition[t] = h2.position[t]]
         IN  IF temp = undefined
             THEN [h3 EXCEPT !.thrown = "TypeError"]
             ELSE removeChild(h3, temp, t)

(* p.addChild(child) *)
addChild(h, p, child) ==
    IF h.thrown # "none"
    THEN h
    ELSE IF ~instanceof_Transform(child)
    THEN [h EXCEPT !.thrown = "TypeError"]
    ELSE LET h1 == IF h.parent[child] # p THEN set_parent(h, child, p) ELSE h
         IN  IF h1.thrown # "none"
             THEN h1
             ELSE [h1 EXCEPT !.children[p] = Append(@, child)]

(* Mutant: splice is called without the test for index -1, which removes  *)
(* the last element of the list                                            *)
removeChild_noIndexCheck(h, p, child) ==
    IF h.thrown # "none"
    THEN h
    ELSE LET h1 == IF h.parent[child] = p THEN set_parent(h, child, undefined) ELSE h
             index == indexOf(h1.children[p], child)
         IN  IF h1.thrown # "none"
             THEN h1
             ELSE IF index # 0
             THEN [h1 EXCEPT !.children[p] = splice(@, index)]
             ELSE [h1 EXCEPT !.children[p] = SubSeq(@, 1, Len(@) - 1)]

(* p.removeChild(child) *)
removeChild(h, p, child) ==
    IF h.thrown # "none"
    THEN h
    ELSE IF ~instanceof_Transform(child)
    THEN [h EXCEPT !.thrown = "TypeError"]
    ELSE LET h1 == IF h.parent[child] = p THEN set_parent(h, child, undefined) ELSE h
             index == indexOf(h1.children[p], child)
         IN  IF h1.thrown # "none"
             THEN h1
             ELSE IF index # 0
             THEN [h1 EXCEPT !.children[p] = splice(@, index)]
             ELSE h1

(* t.localToWorldMatrix and t.worldToLocalMatrix *)
_getLocalToWorldMatrix(h, t) ==
    Matrix4x4_LocalToWorldMatrix(h.position[t], h.rotation[t], Vector3_one)

_getWorldtoLocalMatrix(h, t) ==
    Matrix4x4_WorldToLocalMatrix(h.position[t], h.rotation[t], Vector3_one)

(* t.transformPosition(position) and t.inverseTransformPosition(position)  *)
(* for a Vector3 argument                                                  *)
transformPosition(h, t, position_) ==
    Matrix4x4_mulVector3(_getLocalToWorldMatrix(h, t), position_)

inverseTransformPosition(h, t, position_) ==
    Matrix4x4_mulVector3(_getWorldtoLocalMatrix(h, t), position_)

(* Transform.Space *)
Space_Self == 0

Space_World == 1

(* Math.cos and Math.sin of half an angle that is given in degrees and is  *)
(* a multiple of 180: half the angle is a whole number of quarter turns    *)
Math_cosHalf(deg) == <<1, 0, -1, 0>>[((deg.a \div 180) % 4) + 1]

Math_sinHalf(deg) == <<0, 1, 0, -1>>[((deg.a \div 180) % 4) + 1]

(* Euler angles in degrees that are multiples of 180 *)
Angles ==
    {<<Whole(180), Whole(0), Whole(0)>>, <<Whole(0), Whole(-180), Whole(0)>>}

(* Quaternion.Euler(x, y, z) for the heap, in half units; x, y and z are   *)
(* numbers of Angles                                                       *)
Quaternion_Euler(x, y, z) ==
    LET c1 == Math_cosHalf(y)
        s1 == Math_sinHalf(y)
        c2 == Math_cosHalf(x)
        s2 == Math_sinHalf(x)
        c3 == Math_cosHalf(z)
        s3 == Math_sinHalf(z)
    IN  Quaternion(2 * (s1 * c2 * s3 + c1 * s2 * c3),
                   2 * (s1 * c2 * c3 - c1 * s2 * s3),
                   2 * (c1 * c2 * s3 - s1 * s2 * c3),
                   2 * (c1 * c2 * c3 + s1 * s2 * s3))

(* t.translate(translation, relativeTo).  relativeTo is Space.Self when it *)
(* is left out: undefined and Space.Self are the same value here.  With a  *)
(* parent and in Space.Self the last statement assigns to this.location,   *)
(* a property that nothing reads.                                          *)
translate(h, t, translation, relativeTo) ==
    IF ~instanceof_Vector3(translation)
    THEN [h EXCEPT !.thrown = "TypeError"]
    ELSE LET relativeTo_ == IF relativeTo = undefined THEN Space_Self ELSE relativeTo
         IN  IF relativeTo_ = Space_World
             THEN LET h1 == set_position(h, t, Vector3_add(h.position[t], translation),
                                         StackLimit)
                  IN  IF h1.thrown # "none" THEN h1
                      ELSE set_localPosition(h1, t, _getLocalPositionFromWorldPosition(h1, t))
             ELSE IF h.parent[t] = undefined
             THEN LET h1 == set_position(h, t,
                                Vector3_add(h.position[t],
                                    Quaternion_mulVector3(h.rotation[t], translation)),
                                StackLimit)
                  IN  IF h1.thrown # "none" THEN h1
                      ELSE set_localPosition(h1, t, h1.position[t])
             ELSE LET h1 == set_localPosition(h, t,
                                Vector3_add(h.localPosition[t],
                                    Quaternion_mulVector3(h.localRotation[t], translation)))
                  IN  [h1 EXCEPT !.location[t] = _getWorldPositionFromLocalPosition(h1, t)]

(* t.rotate(x, y, z, relativeTo).  The test of the arguments is            *)
(* (!isNumber(x) || !isNumber(y), !isNumber(z)): the comma leaves the test *)
(* of z only; Quaternion.Euler then tests x and y and throws the same      *)
(* error.                                                                  *)
rotate(h, t, x, y, z, relativeTo) ==
    IF ~isNumber(z)
    THEN [h EXCEPT !.thrown = "TypeError"]
    ELSE IF ~isNumber(x) \/ ~isNumber(y)
    THEN [h EXCEPT !.thrown = "TypeError"]
    ELSE LET relativeTo_ == IF relativeTo = undefined THEN Space_Self ELSE relativeTo
             euler == Quaternion_Euler(x, y, z)
         IN  IF relativeTo_ = Space_World
             THEN LET h1 == set_rotation(h, t, Quaternion_mul(euler, h.rotation[t]),
                                         StackLimit)
                  IN  IF h1.thrown # "none" THEN h1
                      ELSE set_localRotation(h1, t, _getLocalRotationFromWorldRotation(h1, t))
             ELSE IF h.parent[t] = undefined
             THEN LET h1 == set_rotation(h, t, Quaternion_mul(h.rotation[t], euler),
                                         StackLimit)
                  IN  IF h1.thrown # "none" THEN h1
                      ELSE set_localRotation(h1, t, h1.rotation[t])
             ELSE LET h1 == set_localRotation(h, t,
                                Quaternion_mul(h.localRotation[t], euler))
                  IN  set_rotation(h1, t, _getWorldRotationFromLocalRotation(h1, t),
                                   StackLimit)

(***************************************************************************)
(* The hierarchy the parent links form                                     *)
(***************************************************************************)
RECURSIVE ParentChain(_, _, _)
ParentChain(par, t, k) ==
    IF k = 0 \/ par[t] = undefined
    THEN {}
    ELSE {par[t]} \cup ParentChain(par, par[t], k - 1)

(* The transforms reached from t by following parent links *)
Ancestors(par, t) == ParentChain(par, t, NumTransforms)

(* The transitive descendants of n by parent links *)
Descendants(par, n) == {d \in Transforms : n \in Ancestors(par, d)}

(* No transform is its own ancestor *)
Acyclic(par) == \A t \in Transforms : t \notin Ancestors(par, t)

(* t.root: the getter calls itself on the parent.  d is the number of      *)
(* getter frames the call stack still has room for; the read ends with     *)
(* RangeError (stack overflow) when it needs more.                         *)
RECURSIVE _getRoot(_, _, _)
_getRoot(h, t, d) ==
    IF d = 0
    THEN [thrown |-> "RangeError", value |-> undefined]
    ELSE IF h.parent[t] = undefined
    THEN [thrown |-> "none", value |-> t]
    ELSE _getRoot(h, h.parent[t], d - 1)

(***************************************************************************)
(* The state machine: one action per operation a caller can invoke.        *)
(***************************************************************************)
(* Arguments the callers pass *)
PositionInputs == {Vector3(1, 0, 0), Vector3(0, 2, 0)}

RotationInputs == {Quaternion(2, 0, 0, 0), Quaternion(1, 1, 1, 1)}

(* new Transform(position, rotation): an argument of another type is left *)
(* out and the default stays                                               *)
_Transform(pos, rot) ==
    LET _position == IF instanceof_Vector3(pos) THEN pos ELSE Vector3_zero
        _rotation == IF instanceof_Quaternion(rot) THEN rot ELSE Quaternion_identity
    IN  [position |-> _position, rotation |-> _rotation,
         localPosition |-> _position, localRotation |-> _rotation,
         parent |-> undefined, children |-> <<>>, location |-> noProperty]

(* The scene the callers build: new Transform(), new Transform(position,   *)
(* rotation) with a 120 degree rotation about (1,1,1), and one with the    *)
(* 180 degree rotation about the x axis.                                   *)
InitialTransforms ==
    [t \in Transforms |->
        IF t = 1 THEN _Transform(Vector3_zero, Quaternion_identity)
        ELSE IF t % 2 = 0 THEN _Transform(Vector3(1, 0, 0), Quaternion(1, 1, 1, 1))
        ELSE _Transform(Vector3(0, 2, 0), Quaternion(2, 0, 0, 0))]

Init ==
        /\ position = [t \in Transforms |-> InitialTransforms[t].position]
        /\ rotation = [t \in Transforms |-> InitialTransforms[t].rotation]
        /\ localPosition = [t \in Transforms |-> InitialTransforms[t].localPosition]
        /\ localRotation = [t \in Transforms |-> InitialTransforms[t].localRotation]
        /\ parent = [t \in Transforms |-> InitialTransforms[t].parent]
        /\ children = [t \in Transforms |-> InitialTransforms[t].children]
        /\ location = [t \in Transforms |-> InitialTransforms[t].location]
        /\ thrown = "none"
        /\ last = [op |-> "new", t |-> undefined, arg |-> undefined]
        /\ looped = FALSE
        /\ steps = 0
        /\ calc = [op |-> "none"]

(* The state after a call that left the heap h.  last names the call, and  *)
(* looped records that the callers have, at some time, made a transform    *)
(* its own ancestor.                                                       *)
Becomes(h, op, t, arg) ==
    /\ steps < MaxSteps
    /\ position' = h.position
    /\ rotation' = h.rotation
    /\ localPosition' = h.localPosition
    /\ localRotation' = h.localRotation
    /\ parent' = h.parent
    /\ children' = h.children
    /\ location' = h.location
    /\ thrown' = h.thrown
    /\ last' = [op |-> op, t |-> t, arg |-> arg]
    /\ looped' = (looped \/ ~Acyclic(h.parent))
    /\ steps' = steps + 1
    /\ calc' = calc

SetPosition(t, val) == Becomes(set_position(Heap, t, val, StackLimit), "position", t, undefined)

SetRotation(t, val) == Becomes(set_rotation(Heap, t, val, StackLimit), "rotation", t, undefined)

SetLocalPosition(t, val) == Becomes(set_localPosition(Heap, t, val), "localPosition", t, undefined)

SetLocalRotation(t, val) == Becomes(set_localRotation(Heap, t, val), "localRotation", t, undefined)

SetParent(t, val) == Becomes(set_parent(Heap, t, val), "parent", t, val)

AddChild(p, child) == Becomes(addChild(Heap, p, child), "addChild", p, child)

RemoveChild(p, child) == Becomes(removeChild(Heap, p, child), "removeChild", p, child)

Next ==
    \/ \E t \in Transforms, val \in PositionInputs : SetPosition(t, val)
    \/ \E t \in Transforms, val \in RotationInputs : SetRotation(t, val)
    \/ \E t \in Transforms, val \in PositionInputs : SetLocalPosition(t, val)
    \/ \E t \in Transforms, val \in RotationInputs : SetLocalRotation(t, val)
    \/ \E t \in Transforms, val \in Transforms \cup {undefined} : SetParent(t, val)
    \/ \E p \in Transforms, child \in Transforms : AddChild(p, child)
    \/ \E p \in Transforms, child \in Transforms : RemoveChild(p, child)

Spec == Init /\ [][Next]_vars

(***************************************************************************)
(* The callers that build a hierarchy and move the transforms with         *)
(* translate and rotate.  last.arg holds the arguments and the value the   *)
(* call returned: the transform itself, or undefined when it threw.        *)
(***************************************************************************)
(* The angles above, and angles of which one is not a number *)
AngleInputs ==
    Angles \cup {<<Whole(0), Whole(0), undefinedValue>>,
                 <<undefinedValue, Whole(0), Whole(0)>>}

Translate(t, translation, relativeTo) ==
    LET h == translate(Heap, t, translation, relativeTo)
    IN  Becomes(h, "translate", t,
                [translation |-> translation, relativeTo |-> relativeTo,
                 returns |-> IF h.thrown = "none" THEN t ELSE undefined])

Rotate(t, angles, relativeTo) ==
    LET h == rotate(Heap, t, angles[1], angles[2], angles[3], relativeTo)
    IN  Becomes(h, "rotate", t,
                [angles |-> angles, relativeTo |-> relativeTo,
                 returns |-> IF h.thrown = "none" THEN t ELSE undefined])

MotionNext ==
    \/ \E t \in Transforms, val \in Transforms \cup {undefined} : SetParent(t, val)
    \/ \E t \in Transforms, v \in {Vector3(0, 2, 0), wrongTyped},
          space \in {Space_Self, Space_World} : Translate(t, v, space)
    \/ \E t \in Transforms, angles \in AngleInputs,
          space \in {Space_Self, Space_World} : Rotate(t, angles, space)

Motion == Init /\ [][MotionNext]_vars

(***************************************************************************)
(* The calls whose result depends on their arguments alone.  calc holds    *)
(* the call in progress with its arguments and its result; a call starts   *)
(* when none is in progress and Return ends it.  The transforms are not    *)
(* touched.                                                                *)
(***************************************************************************)
(* The 24 unit quaternions with components in {0, +-1/2, +-1} *)
UnitQuaternions ==
    {q \in [x : -2..2, y : -2..2, z : -2..2, w : -2..2] :
        q.x * q.x + q.y * q.y + q.z * q.z + q.w * q.w = 4}

VectorInputs == {Vector3(1, 0, 0), Vector3(0, 2, 0), Vector3(1, 2, 3)}

(* The heap after t = new Transform(pos, rot) for every transform t *)
NewHeap(pos, rot) ==
    LET o == _Transform(pos, rot)
    IN  [position |-> [t \in Transforms |-> o.position],
         rotation |-> [t \in Transforms |-> o.rotation],
         localPosition |-> [t \in Transforms |-> o.localPosition],
         localRotation |-> [t \in Transforms |-> o.localRotation],
         parent |-> [t \in Transforms |-> o.parent],
         children |-> [t \in Transforms |-> o.children],
         location |-> [t \in Transforms |-> o.location],
         thrown |-> "none"]

Calls(c) ==
    /\ calc.op = "none"
    /\ calc' = c
    /\ UNCHANGED <<position, rotation, localPosition, localRotation, parent,
                   children, location, thrown, last, looped, steps>>

Return ==
    /\ calc.op # "none"
    /\ calc' = [op |-> "none"]
    /\ UNCHANGED <<position, rotation, localPosition, localRotation, parent,
                   children, location, thrown, last, looped, steps>>

(* new Transform(pos, rot).transformPosition(v) *)
TransformPosition(pos, rot, v) ==
    Calls([op |-> "transformPosition", position |-> pos, rotation |-> rot, arg |-> v,
           result |-> transformPosition(NewHeap(pos, rot), 1, v)])

(* new Transform(pos, rot).inverseTransformPosition(v) *)
InverseTransformPosition(pos, rot, v) ==
    Calls([op |-> "inverseTransformPosition", position |-> pos, rotation |-> rot, arg |-> v,
           result |-> inverseTransformPosition(NewHeap(pos, rot), 1, v)])

(* t = new Transform(pos, rot); t[prop] = val, val of another type than    *)
(* the property's                                                          *)
AssignWrongType(prop) ==
    LET h == NewHeap(Vector3(0, 2, 0), Quaternion(2, 0, 0, 0))
        h1 == IF prop = "position" THEN set_position(h, 1, wrongTyped, StackLimit)
              ELSE IF prop = "rotation" THEN set_rotation(h, 1, wrongTyped, StackLimit)
              ELSE IF prop = "localPosition" THEN set_localPosition(h, 1, wrongTyped)
              ELSE IF prop = "localRotation" THEN set_localRotation(h, 1, wrongTyped)
              ELSE set_parent(h, 1, NotATransform)
    IN  Calls([op |-> "wrong type", call |-> prop, thrown |-> h1.thrown,
               changed |-> (h1 # h)])

(* new Transform(position, rotation) with arguments of other types *)
ConstructWrongType ==
    Calls([op |-> "wrong type", call |-> "new Transform", thrown |-> "none",
           result |-> _Transform(wrongTyped, wrongTyped)])

(* t.addChild(child) and t.removeChild(child), child not a Transform *)
ChildWrongType(method) ==
    LET h == NewHeap(Vector3(0, 2, 0), Quaternion(2, 0, 0, 0))
        h1 == IF method = "addChild" THEN addChild(h, 1, NotATransform)
              ELSE removeChild(h, 1, NotATransform)
    IN  Calls([op |-> "wrong type", call |-> method, thrown |-> h1.thrown,
               changed |-> (h1 # h)])

(* The arguments of new Quaternion(x, y, z, w): -1, 0 and 1, with a sum of  *)
(* squares whose root the numbers hold.  They give the quaternion of zero  *)
(* magnitude and the 48 unit quaternions of the rotations that map the     *)
(* axes onto the axes.                                                     *)
QuaternionArgs ==
    {c \in [x : {-1, 0, 1}, y : {-1, 0, 1}, z : {-1, 0, 1}, w : {-1, 0, 1}] :
        c.x * c.x + c.y * c.y + c.z * c.z + c.w * c.w \in {0, 1, 2, 4}}

QuaternionOf(c) == _Quaternion(Whole(c.x), Whole(c.y), Whole(c.z), Whole(c.w))

QuaternionInputs == {QuaternionOf(c) : c \in QuaternionArgs}

(* Euler angles in degrees *)
EulerInputs == {-90, 0, 90, 180, 270}

NumberVectors ==
    {_Vector3(Whole(1), Whole(0), Whole(0)), _Vector3(Whole(0), Whole(0), Whole(1)),
     _Vector3(Whole(1), Whole(2), Whole(3))}

(* new Quaternion(x, y, z, w) *)
NewQuaternion(c) ==
    Calls([op |-> "new Quaternion", args |-> c, result |-> QuaternionOf(c)])

(* a.mul(b) *)
Mul(a, b) ==
    Calls([op |-> "mul", this |-> a, quaternion |-> b, result |-> _Quaternion_mul(a, b)])

(* q.inverse() *)
Inverse(q) ==
    Calls([op |-> "inverse", this |-> q, result |-> _Quaternion_inverse(q)])

(* Quaternion.Euler(x, y, z) *)
Euler(x, y, z) ==
    Calls([op |-> "Euler", x |-> x, y |-> y, z |-> z,
           result |-> _Quaternion_Euler(Whole(x), Whole(y), Whole(z))])

(* q.eulerAngles *)
EulerAngles(q) ==
    Calls([op |-> "eulerAngles", this |-> q, result |-> _getEulerAngles(q)])

CalcNext ==
    \/ \E c \in QuaternionArgs : NewQuaternion(c)
    \/ \E a \in QuaternionInputs, b \in QuaternionInputs : Mul(a, b)
    \/ \E q \in QuaternionInputs : Inverse(q)
    \/ \E x \in EulerInputs, y \in EulerInputs, z \in EulerInputs : Euler(x, y, z)
    \/ \E q \in QuaternionInputs : EulerAngles(q)
    \/ \E prop \in {"position", "rotation", "localPosition", "localRotation", "parent"} :
          AssignWrongType(prop)
    \/ ConstructWrongType
    \/ \E method \in {"addChild", "removeChild"} : ChildWrongType(method)
    \/ \E pos \in VectorInputs, rot \in UnitQuaternions, v \in VectorInputs :
          TransformPosition(pos, rot, v)
    \/ \E pos \in VectorInputs, rot \in UnitQuaternions, v \in VectorInputs :
          InverseTransformPosition(pos, rot, v)
    \/ Return

Calc == Init /\ [][CalcNext]_vars

(***************************************************************************)
(* The calls of Vector, Matrix and Matrix4x4, recorded in calc like the    *)
(* calls above.                                                            *)
(***************************************************************************)
(* Rows of whole numbers; a matrix input is any four of them, so the       *)
(* inputs hold the identity, permutations, matrices with equal rows        *)
(* (determinant 0) and matrices without a zero entry in three rows.        *)
MatrixRows ==
    {<<1, 0, 0, 0>>, <<0, 1, 0, 0>>, <<0, 0, 1, 0>>, <<0, 0, 0, 1>>,
     <<1, 2, -1, 1>>, <<2, -1, 1, 3>>, <<-1, 1, 2, 2>>}

(* The matrix with the values 0..15 *)
CountingMatrix == [i \in 1..16 |-> i - 1]

MatrixInputs ==
    {r[1] \o r[2] \o r[3] \o r[4] : r \in [1..4 -> MatrixRows]} \cup {CountingMatrix}

(* m.determinant() *)
Determinant(m) ==
    LET matrix == Matrix4x4_ofIntegers(m)
    IN  Calls([op |-> "determinant", this |-> matrix,
               result |-> _Matrix4x4_determinant(matrix)])

(* m.inverse() *)
MatrixInverse(m) ==
    LET matrix == Matrix4x4_ofIntegers(m)
    IN  Calls([op |-> "Matrix4x4.inverse", this |-> matrix,
               determinant |-> _Matrix4x4_determinant(matrix),
               cofactors |-> Matrix4x4_cofactors(m),
               result |-> _Matrix4x4_inverse(matrix)])

(* Unit quaternions for the matrices: the identity, the quarter turns and  *)
(* the turns by 120 degrees (w positive) and three half turns              *)
MatrixRotations ==
    {QuaternionOf(c) : c \in {a \in QuaternionArgs :
        a.w = 1 \/ (a.w = 0 /\ a.x = 1 /\ a.z = 0)}}

(* A scale is a number or a Vector3 *)
ScaleInputs == {Whole(2), Num(1, 0, 2), _Vector3(Whole(2), Whole(3), Whole(-1))}

(* Matrix4x4.TRS(t, r, s).mulVector3(v) *)
TRS(t, r, s, v) ==
    LET matrix == _Matrix4x4_TRS(t, r, s)
    IN  Calls([op |-> "TRS", translation |-> t, rotation |-> r, scale |-> s,
               vector3 |-> v, result |-> matrix,
               applied |-> _Matrix4x4_mulVector3(matrix, v)])

(* Matrix4x4.LocalToWorldMatrix(pos, rot, scale), rot and scale given or   *)
(* left out                                                                *)
LocalToWorldMatrix(pos, rot, scale) ==
    Calls([op |-> "LocalToWorldMatrix", position |-> pos, rotation |-> rot,
           scale |-> scale, result |-> _Matrix4x4_LocalToWorldMatrix(pos, rot, scale)])

(* The arguments of new Vector and new Matrix: a dimension is a whole      *)
(* number from -MaxDimension to MaxDimension, 0.5 or left out; the data are *)
(* left out, an array of 0 to MaxLen numbers, or an array that holds        *)
(* undefined.                                                              *)
MaxDimension == 3

MaxLen == 5

DimensionInputs ==
    {Whole(n) : n \in -MaxDimension..MaxDimension} \cup {Num(1, 0, 2), undefinedValue}

DataInputs ==
    {Array_([i \in 1..n |-> Whole(6 + i)]) : n \in 0..MaxLen}
        \cup {undefinedValue, Array_(<<Whole(7), undefinedValue>>)}

(* new Vector(dimension, data) *)
NewVector(dimension, data) ==
    Calls([op |-> "new Vector", dimension |-> dimension, data |-> data,
           result |-> _Vector(dimension, data)])

(* new Matrix(numRows, numColumns, data) *)
NewMatrix(numRows, numColumns, data) ==
    Calls([op |-> "new Matrix", numRows |-> numRows, numColumns |-> numColumns,
           data |-> data, result |-> _Matrix(numRows, numColumns, data)])

MatrixNext ==
    \/ \E m \in MatrixInputs : Determinant(m)
    \/ \E m \in MatrixInputs : MatrixInverse(m)
    \/ \E t \in NumberVectors, r \in MatrixRotations, s \in ScaleInputs,
          v \in NumberVectors : TRS(t, r, s, v)
    \/ \E pos \in NumberVectors, rot \in MatrixRotations \cup {undefinedValue},
          scale \in ScaleInputs \cup {undefinedValue} :
          LocalToWorldMatrix(pos, rot, scale)
    \/ \E dimension \in DimensionInputs, data \in DataInputs : NewVector(dimension, data)
    \/ \E numRows \in DimensionInputs, numColumns \in DimensionInputs,
          data \in DataInputs : NewMatrix(numRows, numColumns, data)
    \/ Return

MatrixCalc == Init /\ [][MatrixNext]_vars

(***************************************************************************)
(* Vocabulary of the properties                                            *)
(***************************************************************************)
Range(cs) == {cs[i] : i \in 1..Len(cs)}

(* c's world pose is its parent's world pose composed with c's local pose *)
WorldFromParent(h, c) ==
    LET p == h.parent[c]
    IN  /\ h.rotation[c] = Quaternion_mul(h.rotation[p], h.localRotation[c])
        /\ h.position[c] = Vector3_add(h.position[p],
                               Quaternion_mulVector3(h.rotation[p], h.localPosition[c]))

(* The four pose fields and the parent of o are the same before and after *)
Untouched(o) ==
    /\ position'[o] = position[o]
    /\ rotation'[o] = rotation[o]
    /\ localPosition'[o] = localPosition[o]
    /\ localRotation'[o] = localRotation[o]
    /\ parent'[o] = parent[o]

(***************************************************************************)
(* C1: in every reachable state, every transform c that has a parent p has *)
(* rotation = p.rotation o c.localRotation and position = p.position +     *)
(* p.rotation . c.localPosition.  Stated for the callers that never make a *)
(* transform its own ancestor.  The code breaks it: a write to             *)
(* localPosition or localRotation moves a transform and leaves its         *)
(* children where they were.                                               *)
(***************************************************************************)
C1_WorldIsParentComposedWithLocal ==
    ~looped =>
        \A c \in Transforms : parent[c] # undefined => WorldFromParent(Heap, c)

(***************************************************************************)
(* C2: in every reachable state, a transform that has no parent has        *)
(* localPosition = position and localRotation = rotation.                  *)
(***************************************************************************)
C2_RootLocalIsWorld ==
    \A t \in Transforms :
        parent[t] = undefined =>
            /\ localPosition[t] = position[t]
            /\ localRotation[t] = rotation[t]

(* A transform that was moved while it had a parent has just been detached *)
C2_Witness ==
    /\ last.op = "removeChild"
    /\ thrown = "none"
    /\ last.t # last.arg
    /\ parent[last.arg] = undefined
    /\ position[last.arg] # InitialTransforms[last.arg].position
    /\ rotation[last.arg] # InitialTransforms[last.arg].rotation
    /\ localPosition[last.arg] = position[last.arg]
    /\ localRotation[last.arg] = rotation[last.arg]

(***************************************************************************)
(* C3: a write to position or rotation of n recomputes n's local value     *)
(* from its parent and leaves every transitive descendant d of n with      *)
(* world pose = parent's world pose o local pose, d's local pose being the *)
(* one it had before the write.  Stated for the callers that never make a  *)
(* transform its own ancestor.  The code breaks it when a children list    *)
(* holds a transform that was reparented (C6): the cascade never ends.     *)
(***************************************************************************)
C3_WorldWriteCascades ==
    [][(last'.op \in {"position", "rotation"} /\ ~looped) =>
         /\ last'.op = "position" =>
                localPosition'[last'.t] = _getLocalPositionFromWorldPosition(Heap', last'.t)
         /\ last'.op = "rotation" =>
                localRotation'[last'.t] = _getLocalRotationFromWorldRotation(Heap', last'.t)
         /\ \A d \in Descendants(parent, last'.t) :
                /\ WorldFromParent(Heap', d)
                /\ localPosition'[d] = localPosition[d]
                /\ localRotation'[d] = localRotation[d]]_vars

(***************************************************************************)
(* C4: a write to localPosition (localRotation) of n sets n's position     *)
(* (rotation) to the parent's world pose composed with the new local value *)
(* (to the local value itself when n has no parent), and changes no pose   *)
(* field and no parent of any other transform.                             *)
(***************************************************************************)
C4_LocalWriteIsLeafLocal ==
    [][last'.op \in {"localPosition", "localRotation"} =>
         LET n == last'.t
             p == parent[n]
         IN  /\ thrown' = "none"
             /\ last'.op = "localPosition" =>
                    position'[n] =
                        IF p = undefined
                        THEN localPosition'[n]
                        ELSE Vector3_add(position[p],
                                 Quaternion_mulVector3(rotation[p], localPosition'[n]))
             /\ last'.op = "localRotation" =>
                    rotation'[n] =
                        IF p = undefined
                        THEN localRotation'[n]
                        ELSE Quaternion_mul(rotation[p], localRotation'[n])
             /\ \A o \in Transforms \ {n} : Untouched(o)]_vars

(* localPosition was written on a transform with a rotated parent and a child *)
C4_Witness ==
    /\ last.op = "localPosition"
    /\ parent[last.t] \in Transforms \ {last.t}
    /\ rotation[parent[last.t]] # Quaternion_identity
    /\ localPosition[last.t] # position[last.t]
    /\ \E c \in Transforms \ {last.t} : parent[c] = last.t /\ ~WorldFromParent(Heap, c)

(***************************************************************************)
(* C5: assigning a Transform p to c.parent leaves c.position and           *)
(* c.rotation unchanged and sets c.localRotation = p.rotation^-1 o         *)
(* c.rotation and c.localPosition = p.rotation^-1 . (c.position -          *)
(* p.position), so that c.position = p.position + p.rotation .             *)
(* c.localPosition afterwards.                                             *)
(***************************************************************************)
C5_ReparentKeepsWorldPose ==
    [][(last'.op = "parent" /\ last'.arg \in Transforms) =>
         LET c == last'.t
             p == last'.arg
         IN  /\ thrown' = "none"
             /\ parent'[c] = p
             /\ position'[c] = position[c]
             /\ rotation'[c] = rotation[c]
             /\ localRotation'[c] =
                    Quaternion_mul(Quaternion_inverse(rotation[p]), rotation[c])
             /\ localPosition'[c] =
                    Quaternion_mulVector3(Quaternion_inverse(rotation[p]),
                                          Vector3_sub(position[c], position[p]))
             /\ position'[c] =
                    Vector3_add(position'[p],
                                Quaternion_mulVector3(rotation'[p], localPosition'[c]))]_vars

(* c was put under a parent that is translated and rotated by 120 degrees *)
C5_Witness ==
    /\ last.op = "parent"
    /\ last.arg \in Transforms \ {last.t}
    /\ parent[last.t] = last.arg
    /\ position[last.arg] # Vector3_zero
    /\ Quaternion_mul(rotation[last.arg], rotation[last.arg]) \notin
           {Quaternion_identity, Quaternion(0, 0, 0, -2)}
    /\ localPosition[last.t] # position[last.t]
    /\ localRotation[last.t] # rotation[last.t]

(***************************************************************************)
(* C6: in every reachable state, every transform in p's children list has  *)
(* parent p.  The code breaks it: the parent setter registers the          *)
(* transform with the new parent and never removes it from the old one.    *)
(***************************************************************************)
C6_ChildrenHaveThisParent ==
    \A p \in Transforms : \A c \in Range(children[p]) : parent[c] = p

(***************************************************************************)
(* C7: in every reachable state, a transform whose parent is p occurs in   *)
(* p's children list.                                                      *)
(***************************************************************************)
C7_ParentListsItsChildren ==
    \A c \in Transforms :
        parent[c] # undefined => c \in Range(children[parent[c]])

(* p had two children and one of them has just been removed *)
C7_Witness ==
    /\ last.op = "removeChild"
    /\ thrown = "none"
    /\ parent[last.arg] = undefined
    /\ last.arg \notin Range(children[last.t])
    /\ \E c \in Transforms \ {last.t, last.arg} :
           parent[c] = last.t /\ c \in Range(children[last.t])

(***************************************************************************)
(* C8: in every reachable state, no transform occurs more than once in a   *)
(* children list.  Stated for the callers that never make a transform its  *)
(* own ancestor.  The code breaks it: addChild pushes the child after the  *)
(* parent setter it calls has pushed it already.                           *)
(***************************************************************************)
C8_ChildrenListHasNoDuplicates ==
    ~looped =>
        \A p \in Transforms :
            \A i, j \in 1..Len(children[p]) :
                children[p][i] = children[p][j] => i = j

(***************************************************************************)
(* C9: p.removeChild(c), called while c.parent is p, leaves c without a    *)
(* parent, c.position and c.rotation unchanged, c.localPosition =          *)
(* c.position, c.localRotation = c.rotation, and c out of p's children     *)
(* list.  Stated for the callers that never make a transform its own       *)
(* ancestor.  The code breaks the last part when the list holds c three    *)
(* times (C8).                                                             *)
(***************************************************************************)
C9_RemoveChildDetaches ==
    [][(last'.op = "removeChild" /\ parent[last'.arg] = last'.t /\ ~looped) =>
         LET p == last'.t
             c == last'.arg
         IN  /\ thrown' = "none"
             /\ parent'[c] = undefined
             /\ position'[c] = position[c]
             /\ rotation'[c] = rotation[c]
             /\ localPosition'[c] = position'[c]
             /\ localRotation'[c] = rotation'[c]
             /\ c \notin Range(children'[p])]_vars

(***************************************************************************)
(* C10: assigning undefined to t.parent completes without an error for     *)
(* every transform, one without a parent included, and leaves t without a  *)
(* parent, position and rotation unchanged, localPosition = position and   *)
(* localRotation = rotation.  The code throws a TypeError when t has no    *)
(* parent: it calls removeChild on the undefined old parent.               *)
(***************************************************************************)
C10_ClearParentCompletes ==
    [][(last'.op = "parent" /\ last'.arg = undefined) =>
         LET t == last'.t
         IN  /\ thrown' = "none"
             /\ parent'[t] = undefined
             /\ position'[t] = position[t]
             /\ rotation'[t] = rotation[t]
             /\ localPosition'[t] = position'[t]
             /\ localRotation'[t] = rotation'[t]]_vars

(***************************************************************************)
(* C11: in every state reachable through parent assignments, addChild and  *)
(* removeChild, reading t.root terminates for every transform t and        *)
(* returns the transform without a parent that the parent links lead to    *)
(* from t (t itself when t has no parent).  The code breaks it: the parent *)
(* setter accepts a transform as its own ancestor, and on such a loop the  *)
(* getter recurses until the stack overflows.                              *)
(***************************************************************************)
C11_RootTerminates ==
    \A t \in Transforms :
        LET r == _getRoot(Heap, t, StackLimit)
        IN  /\ r.thrown = "none"
            /\ parent[r.value] = undefined
            /\ r.value \in {t} \cup Ancestors(parent, t)

(***************************************************************************)
(* C12: for every transform t and every Vector3 v, t.transformPosition(v)  *)
(* is t.position + t.rotation . v, and t.inverseTransformPosition takes it *)
(* back to v.  Checked for the transforms new Transform(pos, rot) with rot *)
(* one of the 24 unit quaternions.                                         *)
(***************************************************************************)
C12_TransformPositionRoundTrip ==
    calc.op = "transformPosition" =>
        /\ calc.result = Vector3_add(calc.position,
                                     Quaternion_mulVector3(calc.rotation, calc.arg))
        /\ inverseTransformPosition(NewHeap(calc.position, calc.rotation), 1, calc.result)
             = calc.arg

(* a call on a transform that is rotated by 120 degrees about (1,1,1) and  *)
(* is away from the origin                                                 *)
C12_Witness ==
    /\ calc.op = "transformPosition"
    /\ calc.rotation = Quaternion(1, 1, 1, 1)
    /\ calc.position = Vector3(0, 2, 0)
    /\ calc.arg = Vector3(1, 2, 3)
    /\ calc.result = Vector3(3, 3, 2)

(***************************************************************************)
(* C13: every operation that is given an argument of the wrong type        *)
(* signals an error to its caller: it throws.  The code breaks it: the     *)
(* five property setters of a Transform and its constructor test the type  *)
(* and do nothing when the test fails; addChild and removeChild throw.     *)
(***************************************************************************)
C13_WrongTypeSignalsError ==
    calc.op = "wrong type" => calc.thrown = "TypeError"

(* A quaternion of magnitude 1: its components are numbers *)
IsUnit(q) == IsFinite(q.x) /\ IsFinite(q.y) /\ IsFinite(q.z) /\ IsFinite(q.w)

(***************************************************************************)
(* C14: for all unit quaternions A, B and every Vector3 v,                 *)
(* (A.mul(B)).mulVector3(v) equals A.mulVector3(B.mulVector3(v)).          *)
(***************************************************************************)
C14_MulAppliesArgumentFirst ==
    (calc.op = "mul" /\ IsUnit(calc.this) /\ IsUnit(calc.quaternion)) =>
        \A v \in NumberVectors :
            _Vector3_equals(_Quaternion_mulVector3(calc.result, v),
                            _Quaternion_mulVector3(calc.this,
                                _Quaternion_mulVector3(calc.quaternion, v)))

(* two rotations by 90 degrees, about x and about y, which do not commute *)
C14_Witness ==
    /\ calc.op = "mul"
    /\ calc.this = QuaternionOf([x |-> 1, y |-> 0, z |-> 0, w |-> 1])
    /\ calc.quaternion = QuaternionOf([x |-> 0, y |-> 1, z |-> 0, w |-> 1])
    /\ calc.result = QuaternionOf([x |-> 1, y |-> 1, z |-> 1, w |-> 1])

(***************************************************************************)
(* C15 as the specification states it: for every quaternion q the library  *)
(* can construct, Quaternion.zero included, q.mul(q.inverse()) equals      *)
(* Quaternion.identity.  It fails for the quaternion of zero magnitude,    *)
(* whose product with any quaternion has zero magnitude too.               *)
(***************************************************************************)
C15_AsStated ==
    calc.op = "inverse" =>
        _Quaternion_equals(_Quaternion_mul(calc.this, calc.result), _Quaternion_identity)

(***************************************************************************)
(* C15, amended: for every quaternion q of non-zero magnitude the library  *)
(* can construct, q.inverse() is the conjugate (-x, -y, -z, w) and         *)
(* q.mul(q.inverse()) equals Quaternion.identity.                          *)
(***************************************************************************)
C15_UnitTimesInverseIsIdentity ==
    (calc.op = "inverse" /\ IsUnit(calc.this)) =>
        /\ doublesEqual(calc.result.x, Negate(calc.this.x))
        /\ doublesEqual(calc.result.y, Negate(calc.this.y))
        /\ doublesEqual(calc.result.z, Negate(calc.this.z))
        /\ doublesEqual(calc.result.w, calc.this.w)
        /\ _Quaternion_equals(_Quaternion_mul(calc.this, calc.result), _Quaternion_identity)

(* the inverse of the rotation by 120 degrees about (1,1,1) *)
C15_Witness ==
    /\ calc.op = "inverse"
    /\ calc.this = QuaternionOf([x |-> 1, y |-> 1, z |-> 1, w |-> 1])
    /\ calc.result = QuaternionOf([x |-> -1, y |-> -1, z |-> -1, w |-> 1])

(***************************************************************************)
(* C16: new Quaternion(0, 0, 0, 0), which is what Quaternion.zero is,      *)
(* divides nothing and stores its arguments as they are: x = 0, y = 0,     *)
(* z = 0, w = 0.  The code breaks it: on a zero magnitude                  *)
(* _normalizedCoordinates returns this, from which the constructor reads   *)
(* four undefined components.                                              *)
(***************************************************************************)
C16_ZeroMagnitudeStoredAsIs ==
    (calc.op = "new Quaternion"
       /\ calc.args = [x |-> 0, y |-> 0, z |-> 0, w |-> 0]) =>
        /\ IsZero(calc.result.x)
        /\ IsZero(calc.result.y)
        /\ IsZero(calc.result.z)
        /\ IsZero(calc.result.w)

C18_EulerIsYThenXThenZProduct ==
    calc.op = "Euler" =>
        LET zero == Whole(0)
            aboutY == _Quaternion_Euler(zero, Whole(calc.y), zero)
            aboutX == _Quaternion_Euler(Whole(calc.x), zero, zero)
            aboutZ == _Quaternion_Euler(zero, zero, Whole(calc.z))
        IN  /\ _Quaternion_equals(calc.result,
                    _Quaternion_mul(_Quaternion_mul(aboutY, aboutX), aboutZ))
            /\ \A v \in NumberVectors :
                  _Vector3_equals(_Quaternion_mulVector3(calc.result, v),
                      _Quaternion_mulVector3(aboutY,
                          _Quaternion_mulVector3(aboutX,
                              _Quaternion_mulVector3(aboutZ, v))))

(* Euler(90, 0, 90) is (1/2, -1/2, 1/2, 1/2); the product in the other     *)
(* order has y = 1/2                                                       *)
C18_Witness ==
    /\ calc.op = "Euler" /\ calc.x = 90 /\ calc.y = 0 /\ calc.z = 90
    /\ calc.result = QuaternionOf([x |-> 1, y |-> -1, z |-> 1, w |-> 1])

(***************************************************************************)
(* C19: for every quaternion q, q.eulerAngles is exactly (90, 0, 0) or     *)
(* (-90, 0, 0) when x * w - y * z is within the tolerance of 1/2 or -1/2,  *)
(* and otherwise each of its three components is a number of degrees in   *)
(* the half-open range [0, 360).  Stated for the quaternions of magnitude  *)
(* 1.  The code breaks the range: _normalizeRad subtracts 360 only while   *)
(* the angle is above 360, and z is pi - atan2(..), which is 2 * pi when   *)
(* atan2 is given a negative zero and a negative number.                   *)
(***************************************************************************)
C19_EulerAnglesRange ==
    (calc.op = "eulerAngles" /\ IsUnit(calc.this)) =>
        LET q == calc.this
            poleSum == Minus(Times(q.x, q.w), Times(q.y, q.z))
            InRange(c) == IsFinite(c) /\ ~Less(c, Whole(0)) /\ Less(c, Whole(360))
        IN  IF doublesEqual(poleSum, Num(1, 0, 2))
            THEN calc.result = [x |-> Whole(90), y |-> Whole(0), z |-> Whole(0)]
            ELSE IF doublesEqual(poleSum, Num(-1, 0, 2))
            THEN calc.result = [x |-> Whole(-90), y |-> Whole(0), z |-> Whole(0)]
            ELSE InRange(calc.result.x) /\ InRange(calc.result.y) /\ InRange(calc.result.z)

(* q is a unit quaternion away from the gimbal-lock poles *)
AwayFromPoles(q) ==
    LET poleSum == Minus(Times(q.x, q.w), Times(q.y, q.z))
    IN  /\ IsUnit(q)
        /\ ~doublesEqual(poleSum, Num(1, 0, 2))
        /\ ~doublesEqual(poleSum, Num(-1, 0, 2))

(***************************************************************************)
(* C20: for every unit quaternion q away from the poles,                   *)
(* Quaternion.Euler(q.eulerAngles.x, q.eulerAngles.y,                      *)
(* q.eulerAngles.z).equals(q).                                             *)
(***************************************************************************)
C20_EulerOfEulerAnglesRoundTrip ==
    (calc.op = "eulerAngles" /\ AwayFromPoles(calc.this)) =>
        _Quaternion_equals(
            _Quaternion_Euler(calc.result.x, calc.result.y, calc.result.z), calc.this)

(* The rows of a matrix of sixteen values, and the matrix without row 1    *)
(* and column j                                                            *)
RowsOf(values, n) == [i \in 1..n |-> [j \in 1..n |-> values[n * (i - 1) + j]]]

Minor(rows, j) ==
    [i \in 1..(Len(rows) - 1) |->
        [c \in 1..(Len(rows) - 1) |-> rows[i + 1][IF c < j THEN c ELSE c + 1]]]

(* The determinant by the expansion along the first row *)
RECURSIVE LaplaceSum(_, _)
RECURSIVE ReferenceDeterminant(_)
LaplaceSum(rows, j) ==
    IF j = 0
    THEN 0
    ELSE LaplaceSum(rows, j - 1)
           + (IF j % 2 = 1 THEN 1 ELSE -1) * rows[1][j] * ReferenceDeterminant(Minor(rows, j))

ReferenceDeterminant(rows) ==
    IF Len(rows) = 1 THEN rows[1][1] ELSE LaplaceSum(rows, Len(rows))

(***************************************************************************)
(* C23: for every Matrix4x4 M of whole numbers, M.determinant() is the     *)
(* determinant by cofactor expansion of the elements m11..m44 taken row by *)
(* row; it is 0 for the matrix with the values 0..15.                      *)
(***************************************************************************)
C23_DeterminantIsCofactorExpansion ==
    calc.op = "determinant" =>
        /\ calc.result = Whole(ReferenceDeterminant(RowsOf(Matrix4x4_integers(calc.this), 4)))
        /\ (calc.this = Matrix4x4_ofIntegers(CountingMatrix) => calc.result = Whole(0))

(* the determinant -14 of a matrix with three rows without a zero *)
C23_Witness ==
    /\ calc.op = "determinant"
    /\ Matrix4x4_integers(calc.this)
         = <<1, 2, -1, 1,  2, -1, 1, 3,  -1, 1, 2, 2,  0, 0, 0, 1>>
    /\ calc.result = Whole(ReferenceDeterminant(RowsOf(Matrix4x4_integers(calc.this), 4)))
    /\ calc.result # Whole(0)

(* o is a Matrix4x4 object *)
IsMatrix4x4(o) ==
    /\ DOMAIN o = {"thrown", "size", "values"}
    /\ o.thrown = "none"
    /\ o.size = [rows |-> Whole(4), columns |-> Whole(4)]
    /\ Len(o.values) = 16

C24_TRSScalesRotatesThenTranslates ==
    (calc.op = "TRS" /\ IsUnit(calc.rotation)) =>
        LET t == calc.translation
            v == calc.vector3
            s == IF isNumber(calc.scale)
                 THEN [x |-> calc.scale, y |-> calc.scale, z |-> calc.scale]
                 ELSE calc.scale
            scaled == _Vector3(Times(s.x, v.x), Times(s.y, v.y), Times(s.z, v.z))
            rotated == _Quaternion_mulVector3(calc.rotation, scaled)
            chain == _Matrix4x4_mul(
                         _Matrix4x4_mul(_Matrix4x4_TranslationMatrix(t),
                                        _Matrix4x4_RotationMatrix(calc.rotation)),
                         _Matrix4x4_ScaleMatrix(calc.scale))
        IN  /\ IsMatrix4x4(calc.result)
            /\ instanceof_Vector3(calc.applied)
            /\ _Vector3_equals(calc.applied,
                   _Vector3(Plus(t.x, rotated.x), Plus(t.y, rotated.y), Plus(t.z, rotated.z)))
            /\ _Matrix_equals(calc.result, chain)

(* TRS((1,2,3), a quarter turn about y, (2,3,-1)) takes (1,2,3) to         *)
(* (1,2,3) + (-3,6,-2)                                                     *)
C24_Witness ==
    /\ calc.op = "TRS"
    /\ calc.translation = _Vector3(Whole(1), Whole(2), Whole(3))
    /\ calc.rotation = QuaternionOf([x |-> 0, y |-> 1, z |-> 0, w |-> 1])
    /\ IsUnit(calc.rotation)
    /\ calc.scale = _Vector3(Whole(2), Whole(3), Whole(-1))
    /\ calc.vector3 = _Vector3(Whole(1), Whole(2), Whole(3))
    /\ calc.applied = _Vector3(Whole(-2), Whole(8), Whole(1))

(***************************************************************************)
(* C25: Matrix4x4.LocalToWorldMatrix(pos, rot, scale) equals               *)
(* TRS(pos, rot, scale), with Quaternion.identity for a rot that is left   *)
(* out and Vector3.one for a scale that is left out; it raises no error.   *)
(***************************************************************************)
C25_LocalToWorldMatrixIsTRSWithDefaults ==
    calc.op = "LocalToWorldMatrix" =>
        LET rot == IF calc.rotation = undefinedValue THEN _Quaternion_identity
                   ELSE calc.rotation
            scale == IF calc.scale = undefinedValue THEN _Vector3_one ELSE calc.scale
            trs == _Matrix4x4_TRS(calc.position, rot, scale)
        IN  /\ calc.result.thrown = "none"
            /\ trs.thrown = "none"
            /\ calc.result.values = trs.values
            /\ (calc.rotation = undefinedValue /\ calc.scale = undefinedValue
                  => calc.result.values = _Matrix4x4_TranslationMatrix(calc.position).values)

(* values are the first n of the data, with zeros after the last of them *)
PaddedOrTruncated(values, n, data) ==
    LET given == IF Array_isArray(data) THEN data.array ELSE <<>>
    IN  /\ doublesEqual(Whole(Len(values)), n)
        /\ \A i \in 1..Len(values) :
              values[i] = IF i <= Len(given) THEN given[i] ELSE Whole(0)

(***************************************************************************)
(* C26: every Vector the constructor returns has values.length equal to    *)
(* its dimension, and every Matrix has values.length equal to rows times   *)
(* columns, for every integer dimension or shape the constructor accepts   *)
(* and every length of the data: the values are the data padded with zeros *)
(* on the right or truncated to the leading elements.                      *)
(***************************************************************************)
C26_ValuesLengthIsDimension ==
    /\ (calc.op = "new Vector" /\ calc.result.thrown = "none") =>
          PaddedOrTruncated(calc.result.values, calc.result.dimension, calc.data)
    /\ (calc.op = "new Matrix" /\ calc.result.thrown = "none") =>
          PaddedOrTruncated(calc.result.values,
              Times(calc.result.size.rows, calc.result.size.columns), calc.data)

(***************************************************************************)
(* C30: in every reachable state, a write to position or rotation of n     *)
(* changes position, rotation, localPosition and localRotation of n and of *)
(* the transforms that are descendants of n by the parent links only; the  *)
(* four pose fields of every other transform stay as they were.  Stated    *)
(* for the callers that never make a transform its own ancestor.           *)
(***************************************************************************)
C30_WorldWriteTouchesSubtreeOnly ==
    [][(last'.op \in {"position", "rotation"} /\ ~looped) =>
         \A o \in Transforms :
             (o # last'.t /\ o \notin Descendants(parent, last'.t)) => Untouched(o)]_vars

(* After the step, t's local pose and its parent's world pose give t's     *)
(* world rotation                                                          *)
RotationConsistent(t) ==
    rotation'[t] = IF parent'[t] = undefined THEN localRotation'[t]
                   ELSE Quaternion_mul(rotation'[parent'[t]], localRotation'[t])

(* After the step, t's local pose and its parent's world pose give t's     *)
(* world position                                                          *)
PositionConsistent(t) ==
    position'[t] = IF parent'[t] = undefined THEN localPosition'[t]
                   ELSE Vector3_add(position'[parent'[t]],
                            Quaternion_mulVector3(rotation'[parent'[t]], localPosition'[t]))

(***************************************************************************)
(* C27: t.rotate(x, y, z, World) with numbers x, y, z sets t.rotation to   *)
(* Euler(x, y, z) o (old rotation); with Self, which is also the space     *)
(* when it is left out, to (old rotation) o Euler(x, y, z), with or        *)
(* without a parent.  Afterwards t.localRotation is consistent with        *)
(* t.rotation under t's parent and the call has returned t.  Stated for    *)
(* the callers that never make a transform its own ancestor.  The code     *)
(* breaks it: a transform that stays in the _children of a parent it has   *)
(* left makes the cascade of the rotation setter run until the stack       *)
(* overflows.                                                              *)
(***************************************************************************)
C27_RotateComposesWithEuler ==
    [][(last'.op = "rotate" /\ last'.arg.angles \in Angles /\ ~looped) =>
         LET t == last'.t
             angles == last'.arg.angles
             euler == Quaternion_Euler(angles[1], angles[2], angles[3])
         IN  /\ rotation'[t] =
                   IF last'.arg.relativeTo = Space_World
                   THEN Quaternion_mul(euler, rotation[t])
                   ELSE Quaternion_mul(rotation[t], euler)
             /\ RotationConsistent(t)
             /\ last'.arg.returns = t]_vars

(***************************************************************************)
(* C28: t.translate(v, World) with a vector v sets t.position to (old      *)
(* position) + v; with Self, which is also the space when it is left out,  *)
(* to (old position) + t.rotation . v, with or without a parent.           *)
(* Afterwards t.localPosition is consistent with t.position under t's      *)
(* parent and the call has returned t.  Stated for the callers that never  *)
(* make a transform its own ancestor.  The code breaks it: translate in    *)
(* Self space moves a transform that has a parent and leaves its children  *)
(* where they were, and a child so left behind is then translated from the *)
(* position its local position gives, not from the one it has.             *)
(***************************************************************************)
C28_TranslateAddsToPosition ==
    [][(last'.op = "translate" /\ instanceof_Vector3(last'.arg.translation)
            /\ ~looped) =>
         LET t == last'.t
             v == last'.arg.translation
         IN  /\ position'[t] =
                   IF last'.arg.relativeTo = Space_World
                   THEN Vector3_add(position[t], v)
                   ELSE Vector3_add(position[t], Quaternion_mulVector3(rotation[t], v))
             /\ PositionConsistent(t)
             /\ last'.arg.returns = t]_vars

(* Before the step, the world position of o is the one its parent's world  *)
(* pose and its local position give                                        *)
PositionFromParent(o) ==
    parent[o] # undefined =>
        position[o] = Vector3_add(position[parent[o]],
                          Quaternion_mulVector3(rotation[parent[o]], localPosition[o]))

(***************************************************************************)
(* C29: if t and every descendant of t has position = parent.position +    *)
(* parent.rotation . localPosition before t.translate(v, space), then      *)
(* after the call every descendant d of t has d.position =                 *)
(* parent(d).position + parent(d).rotation . d.localPosition, for Self and *)
(* World and with or without a parent of t.  Stated for the callers that   *)
(* never make a transform its own ancestor.  The code breaks it: with a    *)
(* parent and in Self space translate writes localPosition, whose setter   *)
(* does not adjust the children, and then this.location.                   *)
(***************************************************************************)
C29_ChildrenMoveWithTranslate ==
    [][(/\ last'.op = "translate" /\ instanceof_Vector3(last'.arg.translation)
        /\ ~looped
        /\ \A o \in {last'.t} \cup Descendants(parent, last'.t) :
               PositionFromParent(o)) =>
         \A d \in Descendants(parent, last'.t) : PositionConsistent(d)]_vars


====
